---- MODULE Spec2Model ----
(***************************************************************************)
(* codex-market: plugin lifecycle manager.                                 *)
(*                                                                         *)
(* The module models                                                       *)
(*   - the marker block codec of package mcp (AddMCPServers,               *)
(*     RemoveMCPServers, RemoveMarkedBlock, GenerateMCPServerTOML),        *)
(*   - the install ledger of package plugin (InstalledManager),            *)
(*   - the orchestration commands of package cmd (runPluginInstall,        *)
(*     runPluginUninstall, runPluginUpdate, reinstallPlugin), as whole     *)
(*     commands and step by step,                                          *)
(*   - the Spinner of package autoupdate and its goroutine,                *)
(*   - CheckAll and ApplyUpdates of package autoupdate,                    *)
(*   - the locking of package config (Load, Save, Get, Reload).            *)
(*                                                                         *)
(* Text is a sequence of atoms.  An atom is a string that stands for a     *)
(* piece of the file that the code treats as a unit:                       *)
(*   "NL"                 the newline character                            *)
(*   "S"                  `# [codex-market:start] plugin='                 *)
(*   "E"                  `# [codex-market:end] plugin='                   *)
(*   "MK"                 ` marketplace='                                  *)
(*   "HQ" / "QH"          `[mcp_servers."' and `"]'                        *)
(*   any other string     a run of characters without newline and without  *)
(*                        marker text (a name, a value, a user line)       *)
(* A plugin name is a sequence of atoms, so that one name can be a proper  *)
(* prefix of another (<<"fmt">> and <<"fmt", "2">>).                       *)
(***************************************************************************)
EXTENDS Integers, Sequences, FiniteSets, TLC

VARIABLES
    cfg,          \* config.toml: [exists : BOOLEAN, text : Seq(atom)]
    cfgInit,      \* the config file the run started from
    cfgPrev,      \* the config file before the last codec call
    call,         \* the last codec call: [op, plugin, marketplace, servers]
    callPrev,     \* the codec call before the last one
    nCalls,       \* number of codec calls made so far
    ledger,       \* installed.json: [state, version, plugins]
    ledgerPrev,   \* installed.json before the last InstalledManager call
    lcall,        \* the last InstalledManager call
    lret,         \* what the last InstalledManager call returned
    pc,           \* goroutine -> the step of its ledger mutation it is at
    job,          \* goroutine -> the mutation it runs
    loaded,       \* goroutine -> the document its Load returned
    readers,      \* InstalledManager.mu: number of read locks held
    writer,       \* InstalledManager.mu: the write lock is held
    ledger0,      \* installed.json when the goroutines were started
    fs,           \* the paths that exist: skill dirs, command files, caches
    cwd,          \* the working directory the commands are invoked from
    offered,      \* plugin id -> version resolved from its marketplace clone
    cmd,          \* the last command: [name, id, scope, warned, err]
    nOps,         \* number of commands run so far
    probe,        \* the last call of CheckServerNameConflicts and its result
    un,           \* the uninstall in progress: its step and what it did so far
    ins,          \* the install in progress: its step and what it did so far
    spin,         \* the spinners: the caller, the Spinner objects with their
                  \* goroutines, the lines written to the terminal
    gen,          \* the last call of GenerateMCPServerTOML and what it returned
    upd,          \* the update in progress: the clones, its step, what it did so far
    conf,         \* package config: the lock cfgMu, cfgOnce, the singleton, the file,
                  \* and the goroutines that call into the package
    auto          \* the update check at start: the clones, their origins, the
                  \* CheckResult and the place of ApplyUpdates in it

codecVars == <<cfg, cfgInit, cfgPrev, call, callPrev, nCalls>>

ledgerVars == <<ledger, ledgerPrev, lcall, lret>>

concVars == <<pc, job, loaded, readers, writer, ledger0>>

orchVars == <<fs, cwd, offered, cmd, nOps, probe, un, ins, spin, gen, upd, conf, auto>>

vars == <<cfg, cfgInit, cfgPrev, call, callPrev, nCalls,
          ledger, ledgerPrev, lcall, lret,
          pc, job, loaded, readers, writer, ledger0,
          fs, cwd, offered, cmd, nOps, probe, un, ins, spin, gen, upd, conf, auto>>

-----------------------------------------------------------------------------
(* Bounds *)

MaxCalls == 4

MaxOps == 2

MaxEdits == 3

MaxUninstalls == 1

-----------------------------------------------------------------------------
(* Generic helpers on sequences of atoms *)

NL == "NL"

\* Byte-wise ascending order of the strings that the code sorts.
StrOrder == <<"ALT", "HOME", "TOKEN", "alpha", "beta", "c+">>

Rank(s) == CHOOSE i \in 1..Len(StrOrder) : StrOrder[i] = s

MinByRank(S) == CHOOSE x \in S : \A y \in S : Rank(x) <= Rank(y)

RECURSIVE SortStrings(_)
SortStrings(S) ==
    IF S = {} THEN <<>>
    ELSE LET m == MinByRank(S) IN <<m>> \o SortStrings(S \ {m})

RECURSIVE Flatten(_)
Flatten(ss) == IF ss = <<>> THEN <<>> ELSE Head(ss) \o Flatten(Tail(ss))

\* fmt's %q for a value without quote, backslash or control characters
Quote(v) == <<"\"", v, "\"">>

-----------------------------------------------------------------------------
(* package mcp: marker block codec *)

MarkerStartPrefix == "S"
MarkerEndPrefix == "E"

\* value of an env binding, as atoms: <<"$", "{", NAME, "}">>, <<"$", NAME>>,
\* or a literal <<text>>.  envRefPattern = ^\$\{?([A-Za-z_][A-Za-z0-9_]*)\}?$
EnvVarNames == {"ALT", "HOME", "TOKEN"}

EnvRefMatch(v) ==
    IF Len(v) >= 2 /\ v[1] = "$"
    THEN LET i == IF v[2] = "{" THEN 3 ELSE 2
         IN  IF i <= Len(v) /\ v[i] \in EnvVarNames
                /\ (Len(v) = i \/ (Len(v) = i + 1 /\ v[i + 1] = "}"))
             THEN <<v[i]>>
             ELSE <<>>
    ELSE <<>>

\* fmt's %q for a value given as atoms
QuoteSeq(v) == <<"\"">> \o v \o <<"\"">>

EnvVarsOf(config) ==
    {k \in DOMAIN config.env : EnvRefMatch(config.env[k]) # <<>>}

LiteralEnvOf(config) ==
    {k \in DOMAIN config.env : EnvRefMatch(config.env[k]) = <<>>}

\* variant: a key that differs from the variable it references is not reported
EnvMismatchesOfNone(config) == {}

EnvMismatchesOf(config) ==
    {<<k, EnvRefMatch(config.env[k])[1]>> :
        k \in {x \in EnvVarsOf(config) : EnvRefMatch(config.env[x])[1] # x}}

\* what writeMCPConfigToTOML writes, envVars and envKeys being its two
\* slices after sort.Strings
WriteConfig(name, config, envVars, envKeys) ==
        (IF config.type # "" THEN <<"type = ">> \o Quote(config.type) \o <<NL>> ELSE <<>>)
     \o (IF config.command # "" THEN <<"command = ">> \o Quote(config.command) \o <<NL>> ELSE <<>>)
     \o (IF config.url # "" THEN <<"url = ">> \o Quote(config.url) \o <<NL>> ELSE <<>>)
     \o (IF Len(config.args) > 0
         THEN <<"args = [", NL>>
              \o Flatten([i \in 1..Len(config.args) |->
                            <<"  ">> \o Quote(config.args[i]) \o <<",", NL>>])
              \o <<"]", NL>>
         ELSE <<>>)
     \o (IF Len(envVars) > 0
         THEN <<"env_vars = [", NL>>
              \o Flatten([i \in 1..Len(envVars) |->
                            <<"  ">> \o Quote(envVars[i]) \o <<",", NL>>])
              \o <<"]", NL>>
         ELSE <<>>)
     \o (IF Len(envKeys) > 0
         THEN <<NL, "HQ", name, "\".env]", NL>>
              \o Flatten([i \in 1..Len(envKeys) |->
                            <<envKeys[i], " = ">>
                            \o QuoteSeq(config.env[envKeys[i]]) \o <<NL>>])
         ELSE <<>>)

writeMCPConfigToTOML(name, config) ==
    WriteConfig(name, config, SortStrings(EnvVarsOf(config)),
                SortStrings(LiteralEnvOf(config)))

\* variant: the slice is left in the order in which it was collected
SortSliceKept(q) == q

\* sort.Strings of the slice q of distinct strings
SortSlice(q) == SortStrings({q[i] : i \in 1..Len(q)})

\* writeMCPConfigToTOML when `range config.Env` yields the keys in the
\* order envOrder and `range literalEnv` in the order keyOrder
writeRanged(name, config, envOrder, keyOrder) ==
    WriteConfig(name, config,
                SortSlice(SelectSeq(envOrder, LAMBDA k : k \in EnvVarsOf(config))),
                SortSlice(SelectSeq(keyOrder, LAMBDA k : k \in LiteralEnvOf(config))))

\* GenerateMCPServerTOML when `range servers` yields the names in the order
\* nameOrder
GenerateRanged(pluginName, marketplace, servers, nameOrder, envOrder, keyOrder) ==
    LET serverNames == SortSlice(nameOrder)
    IN  <<NL, MarkerStartPrefix>> \o pluginName \o <<"MK", marketplace, NL>>
     \o Flatten([i \in 1..Len(serverNames) |->
                   <<"HQ", serverNames[i], "QH", NL>>
                   \o writeRanged(serverNames[i], servers[serverNames[i]],
                                  envOrder, keyOrder)
                   \o <<NL>>])
     \o <<MarkerEndPrefix>> \o pluginName \o <<NL>>

GenerateMCPServerTOML(pluginName, marketplace, servers) ==
    LET serverNames == SortStrings(DOMAIN servers)
    IN  <<NL, MarkerStartPrefix>> \o pluginName \o <<"MK", marketplace, NL>>
     \o Flatten([i \in 1..Len(serverNames) |->
                   <<"HQ", serverNames[i], "QH", NL>>
                   \o writeMCPConfigToTOML(serverNames[i], servers[serverNames[i]])
                   \o <<NL>>])
     \o <<MarkerEndPrefix>> \o pluginName \o <<NL>>

GenerateMismatches(servers) ==
    UNION {EnvMismatchesOf(servers[n]) : n \in DOMAIN servers}

\* the literal lit occurs in text c at position i
LitAt(c, i, lit) ==
    /\ i >= 1
    /\ i + Len(lit) - 1 <= Len(c)
    /\ \A k \in 1..Len(lit) : c[i + k - 1] = lit[k]

\* the positions at which a line of t starts
LineStartSet(t) ==
    {i \in 1..Len(t) : i = 1 \/ t[i - 1] = NL}

\* position of the first newline at or after i, 0 when there is none
NextNL(c, i) ==
    IF \E j \in i..Len(c) : c[j] = NL
    THEN CHOOSE j \in i..Len(c) : c[j] = NL /\ \A k \in i..(j - 1) : c[k] # NL
    ELSE 0

\* (?:.*\n)*?END : q0 is the start of a line; skip as few whole lines as
\* possible until the end literal occurs at the start of a line.  The
\* position of that line start, 0 when there is none.
FindEnd(c, q0, endLit) ==
    LET cand == {q \in q0..Len(c) :
                    (q = q0 \/ c[q - 1] = NL) /\ LitAt(c, q, endLit)}
    IN  IF cand = {} THEN 0
        ELSE CHOOSE q \in cand : \A r \in cand : q <= r

\* START[^\n]*\n(?:.*\n)*?END\n? with START at position s: the position just
\* after the match, 0 when there is no match.
MatchAt(c, s, pluginName) ==
    LET startLit == <<MarkerStartPrefix>> \o pluginName
        endLit == <<MarkerEndPrefix>> \o pluginName
    IN  IF ~LitAt(c, s, startLit) THEN 0
        ELSE LET n1 == NextNL(c, s + Len(startLit))
             IN  IF n1 = 0 THEN 0
                 ELSE LET q == FindEnd(c, n1 + 1, endLit)
                      IN  IF q = 0 THEN 0
                          ELSE LET e == q + Len(endLit)
                               IN  IF e <= Len(c) /\ c[e] = NL THEN e + 1 ELSE e

\* \n?START...END\n? tried at position j: the leading \n? takes the newline
\* in front of the start marker.  The position just after the match, or 0.
MatchFrom(c, j, pluginName) ==
    IF c[j] = NL THEN MatchAt(c, j + 1, pluginName) ELSE MatchAt(c, j, pluginName)

\* regexp.ReplaceAllString(content, ""): leftmost matches, left to right,
\* each replaced by the empty string.
RECURSIVE RemoveScan(_, _, _)
RemoveScan(c, i, pluginName) ==
    LET starts == {j \in i..Len(c) : MatchFrom(c, j, pluginName) # 0}
    IN  IF starts = {} THEN SubSeq(c, i, Len(c))
        ELSE LET j == CHOOSE x \in starts : \A y \in starts : x <= y
             IN  SubSeq(c, i, j - 1) \o RemoveScan(c, MatchFrom(c, j, pluginName), pluginName)

RemoveMarkedBlock(content, pluginName) == RemoveScan(content, 1, pluginName)

\* strings.TrimRight(s, "\n")
RECURSIVE TrimRightNL(_)
TrimRightNL(c) ==
    IF c # <<>> /\ c[Len(c)] = NL THEN TrimRightNL(SubSeq(c, 1, Len(c) - 1)) ELSE c

\* os.ReadFile: a missing file reads as empty content
ReadConfig(f) == IF f.exists THEN f.text ELSE <<>>

\* variant: the new block is appended without removing the old one
AddMCPServersTextKeepsOld(f, pluginName, marketplace, servers) ==
    TrimRightNL(ReadConfig(f)) \o <<NL>>
    \o GenerateMCPServerTOML(pluginName, marketplace, servers)

\* AddMCPServers up to the write: remove the old block, trim, append the new
AddMCPServersText(f, pluginName, marketplace, servers) ==
    TrimRightNL(RemoveMarkedBlock(ReadConfig(f), pluginName)) \o <<NL>>
    \o GenerateMCPServerTOML(pluginName, marketplace, servers)

AddMCPServersFile(f, pluginName, marketplace, servers) ==
    [exists |-> TRUE, text |-> AddMCPServersText(f, pluginName, marketplace, servers)]

RemoveMCPServersFile(f, pluginName) ==
    IF ~f.exists THEN f
    ELSE [exists |-> TRUE, text |-> RemoveMarkedBlock(f.text, pluginName)]

-----------------------------------------------------------------------------
(* package plugin: the install ledger (InstalledManager) *)

\* installed.json is absent, holds text that is not JSON, or holds a document
AbsentLedger == [state |-> "absent", version |-> 0, plugins |-> <<>>]
MalformedLedger == [state |-> "malformed", version |-> 0, plugins |-> <<>>]
LedgerFile(doc) == [state |-> "ok", version |-> doc.version, plugins |-> doc.plugins]

NewInstalledPlugins == [version |-> 1, plugins |-> <<>>]

\* plugins.Plugins[pluginID]: a missing key reads as the nil slice
EntriesOf(plugins, pluginID) ==
    IF pluginID \in DOMAIN plugins THEN plugins[pluginID] ELSE <<>>

\* plugins.Plugins[pluginID] = entries
PutEntries(plugins, pluginID, entries) ==
    [k \in DOMAIN plugins \cup {pluginID} |->
        IF k = pluginID THEN entries ELSE plugins[k]]

\* delete(plugins.Plugins, pluginID)
DeleteKey(plugins, pluginID) ==
    [k \in DOMAIN plugins \ {pluginID} |-> plugins[k]]

\* variant: a file that does not parse is read as the empty ledger
LoadCoercesMalformed(file) ==
    IF file.state \in {"absent", "malformed"}
    THEN [err |-> FALSE, doc |-> NewInstalledPlugins]
    ELSE [err |-> FALSE, doc |-> [version |-> file.version, plugins |-> file.plugins]]

\* InstalledManager.Load
Load(file) ==
    IF file.state = "absent" THEN [err |-> FALSE, doc |-> NewInstalledPlugins]
    ELSE IF file.state = "malformed" THEN [err |-> TRUE, doc |-> NewInstalledPlugins]
    ELSE [err |-> FALSE, doc |-> [version |-> file.version, plugins |-> file.plugins]]

\* InstalledManager.Save: the file is overwritten, or the write fails and
\* the file stays as it is
Save(file, doc, saveOk) ==
    IF saveOk THEN [err |-> FALSE, file |-> LedgerFile(doc)]
    ELSE [err |-> TRUE, file |-> file]

\* variant: records are matched by scope alone
SameKeyScopeOnly(e, entry) == e.scope = entry.scope

\* the loop condition of Add: same scope and same project path
SameKey(e, entry) == e.scope = entry.scope /\ e.projectPath = entry.projectPath

\* variant: the record is appended whether or not its key is present
AddEntryAlwaysAppends(entries, entry) == Append(entries, entry)

\* the body of Add on the loaded entries of pluginID
AddEntry(entries, entry) ==
    LET hits == {i \in 1..Len(entries) : SameKey(entries[i], entry)}
    IN  IF hits = {} THEN Append(entries, entry)
        ELSE [entries EXCEPT ![CHOOSE i \in hits : \A j \in hits : i <= j] = entry]

\* InstalledManager.Add
Add(file, pluginID, entry, saveOk) ==
    LET l == Load(file)
    IN  IF l.err THEN [err |-> TRUE, file |-> file]
        ELSE Save(file,
                  [l.doc EXCEPT !.plugins =
                      PutEntries(l.doc.plugins, pluginID,
                                 AddEntry(EntriesOf(l.doc.plugins, pluginID), entry))],
                  saveOk)

\* InstalledManager.Remove
Remove(file, pluginID, saveOk) ==
    LET l == Load(file)
    IN  IF l.err THEN [err |-> TRUE, file |-> file]
        ELSE Save(file, [l.doc EXCEPT !.plugins = DeleteKey(l.doc.plugins, pluginID)],
                  saveOk)

\* variant: scope "project" matches the project records of every path
ShouldRemoveAnyProject(entry, scope, projectPath) ==
    IF scope = "all" THEN TRUE
    ELSE IF scope = "global" THEN entry.scope = "global"
    ELSE IF scope = "project" THEN entry.scope = "project"
    ELSE FALSE

\* the switch of RemoveByScope
ShouldRemove(entry, scope, projectPath) ==
    IF scope = "all" THEN TRUE
    ELSE IF scope = "global" THEN entry.scope = "global"
    ELSE IF scope = "project"
         THEN entry.scope = "project" /\ entry.projectPath = projectPath
    ELSE FALSE

\* InstalledManager.RemoveByScope
RemoveByScope(file, pluginID, scope, projectPath, saveOk) ==
    LET l == Load(file)
        entries == EntriesOf(l.doc.plugins, pluginID)
        removed == SelectSeq(entries, LAMBDA e : ShouldRemove(e, scope, projectPath))
        remaining == SelectSeq(entries, LAMBDA e : ~ShouldRemove(e, scope, projectPath))
        sv == Save(file,
                   [l.doc EXCEPT !.plugins =
                       IF Len(remaining) = 0
                       THEN DeleteKey(l.doc.plugins, pluginID)
                       ELSE PutEntries(l.doc.plugins, pluginID, remaining)],
                   saveOk)
    IN  IF l.err THEN [err |-> TRUE, removed |-> <<>>, file |-> file]
        ELSE IF Len(entries) = 0 THEN [err |-> FALSE, removed |-> <<>>, file |-> file]
        ELSE IF sv.err THEN [err |-> TRUE, removed |-> <<>>, file |-> file]
        ELSE [err |-> FALSE, removed |-> removed, file |-> sv.file]

\* InstalledManager.Get
Get(file, pluginID) ==
    LET l == Load(file)
    IN  IF l.err THEN [err |-> TRUE, entries |-> <<>>]
        ELSE [err |-> FALSE, entries |-> EntriesOf(l.doc.plugins, pluginID)]

\* InstalledManager.GetByScope
GetByScope(file, pluginID, scope, projectPath) ==
    LET g == Get(file, pluginID)
    IN  IF g.err THEN g
        ELSE IF scope = "all" THEN g
        ELSE [err |-> FALSE,
              entries |-> SelectSeq(g.entries,
                            LAMBDA e :
                                \/ scope = "global" /\ e.scope = "global"
                                \/ scope = "project" /\ e.scope = "project"
                                                     /\ e.projectPath = projectPath)]

-----------------------------------------------------------------------------
(* Inputs of the codec *)

PFmt == <<"fmt">>
PFmt2 == <<"fmt", "2">>
PLint == <<"lint">>

PluginNames == {PFmt, PFmt2, PLint}

CfgNpx ==
    [type |-> "", command |-> "npx", url |-> "", args |-> <<"-y">>,
     env |-> ("TOKEN" :> <<"$", "{", "ALT", "}">> @@ "HOME" :> <<"/root">>)]

CfgHttp ==
    [type |-> "http", command |-> "", url |-> "https://x", args |-> <<>>,
     env |-> ("TOKEN" :> <<"$", "TOKEN">>)]

ServersOf(id) ==
    IF id = "SvA" THEN ("alpha" :> CfgNpx)
    ELSE IF id = "SvAB" THEN ("beta" :> CfgNpx @@ "alpha" :> CfgHttp)
    ELSE IF id = "SvC" THEN ("c+" :> CfgHttp)
    ELSE ("beta" :> CfgHttp)

\* the (plugin, marketplace, servers) triples the codec is called with
AddInputs ==
    { <<PFmt, "acme", "SvA">>, <<PFmt, "beta", "SvAB">>,
      <<PFmt2, "acme", "SvA">>, <<PLint, "acme", "SvB">> }

UserFile == <<"u1", NL, NL, "u2", NL>>

\* a file with a start marker for fmt that has no end marker
StrayStartFile == <<"u1", NL, "S", "fmt", "MK", "acme", NL, "u2", NL>>

\* a file in which the user wrote lines directly around the block of fmt
HandEditedFile ==
    <<"u1">> \o GenerateMCPServerTOML(PFmt, "acme", ServersOf("SvA")) \o <<"u3", NL>>

InitialFiles ==
    { [exists |-> FALSE, text |-> <<>>],
      [exists |-> TRUE, text |-> <<>>],
      [exists |-> TRUE, text |-> UserFile],
      [exists |-> TRUE, text |-> StrayStartFile],
      [exists |-> TRUE, text |-> HandEditedFile] }

NoCall == [op |-> "none", plugin |-> <<>>, marketplace |-> "", servers |-> ""]

-----------------------------------------------------------------------------
(* Values shared by the state machines, and the parts of the state that a  *)
(* state machine leaves idle.  The codec state machine (calls of           *)
(* AddMCPServers / RemoveMCPServers) follows.                               *)

\* a path of the file system: a skill directory, a command file under a
\* skills / prompts directory, or a cache copy
Path(kind, dir, name, sfx) == [kind |-> kind, dir |-> dir, name |-> name, sfx |-> sfx]

NoPath == Path("", "", "", "")

NoEntry ==
    [scope |-> "", projectPath |-> "", version |-> "", cachePath |-> NoPath,
     skills |-> <<>>, commands |-> <<>>, mcpServers |-> <<>>]

NoLCall ==
    [op |-> "none", pluginID |-> <<>>, scope |-> "", projectPath |-> "",
     entry |-> NoEntry]

NoLRet == [err |-> FALSE, removed |-> <<>>, doc |-> NewInstalledPlugins]

\* the ledger part of the state while the ledger is not exercised
LedgerIdle ==
    /\ ledger = AbsentLedger
    /\ ledgerPrev = AbsentLedger
    /\ lcall = NoLCall
    /\ lret = NoLRet

\* the codec history while the codec is not exercised on its own
CodecIdle ==
    /\ cfg = [exists |-> FALSE, text |-> <<>>]
    /\ cfgInit = cfg
    /\ cfgPrev = cfg
    /\ call = NoCall
    /\ callPrev = NoCall
    /\ nCalls = 0

Procs == {1, 2}

\* the goroutine part of the state while no goroutine runs
ConcIdle ==
    /\ pc = [p \in Procs |-> "idle"]
    /\ job = [p \in Procs |-> NoLCall]
    /\ loaded = [p \in Procs |-> NewInstalledPlugins]
    /\ readers = 0
    /\ writer = FALSE
    /\ ledger0 = AbsentLedger

OrchIDs == {<<PFmt, "acme">>, <<PFmt, "beta">>}

NoCmd == [name |-> "none", id |-> <<>>, scope |-> "", warned |-> "", err |-> ""]

\* no call of CheckServerNameConflicts was made on the current config file
NoProbe == [plugin |-> <<>>, servers |-> {}, conflicts |-> {}]

\* no uninstall is in progress
NoUn ==
    [pc |-> "idle", id |-> <<>>, scope |-> "", entries |-> <<>>, removed |-> <<>>,
     k |-> 0, attempted |-> {}, failed |-> {}, err |-> ""]

\* no install is in progress
NoIns ==
    [pc |-> "idle", id |-> <<>>, scope |-> "", src |-> NoPath, deferred |-> <<>>,
     k |-> 0, skills |-> <<>>, commands |-> <<>>, servers |-> <<>>,
     dest |-> NoPath, existed |-> FALSE, err |-> ""]

\* no spinner was created
NoSpin == [main |-> "idle", sp |-> <<>>, out |-> <<>>]

\* GenerateMCPServerTOML was not called
NoOrder == [names |-> <<>>, env |-> <<>>, keys |-> <<>>]

NoGen == [servers |-> <<>>, text |-> <<>>, mismatches |-> {}, order |-> NoOrder]

Threads == {"t1", "t2"}

NoConf ==
    [pc |-> [t \in Threads |-> "idle"], op |-> [t \in Threads |-> ""],
     loaded |-> [t \in Threads |-> ""], readers |-> 0, w |-> "", held |-> FALSE,
     once |-> "new", cfg |-> "", file |-> "f0", calls |-> 0]

NoAuto ==
    [pc |-> "idle", clones |-> <<>>, origin |-> <<>>, marketplaces |-> <<>>,
     plugins |-> <<>>, errors |-> {}, hasAny |-> FALSE, k |-> 0, pulled |-> {},
     updateErrors |-> {}]

NoUpd ==
    [pc |-> "idle", args |-> <<>>, force |-> FALSE, clones |-> <<>>, before |-> <<>>,
     toPull |-> {}, pulled |-> {}, pullErrs |-> {}, toCheck |-> <<>>, checked |-> <<>>, warnings |-> <<>>,
     toUpdate |-> <<>>, k |-> 0, attempted |-> <<>>, updatedCount |-> 0, err |-> ""]

\* the command part of the state while no command is run
OrchIdle ==
    /\ fs = {}
    /\ cwd = "/p1"
    /\ offered = [id \in OrchIDs |-> "v1"]
    /\ cmd = NoCmd
    /\ nOps = 0
    /\ probe = NoProbe
    /\ un = NoUn
    /\ ins = NoIns
    /\ spin = NoSpin
    /\ gen = NoGen
    /\ upd = NoUpd
    /\ conf = NoConf
    /\ auto = NoAuto

InitCodec ==
    /\ cfg \in InitialFiles
    /\ cfgInit = cfg
    /\ cfgPrev = cfg
    /\ call = NoCall
    /\ callPrev = NoCall
    /\ nCalls = 0
    /\ LedgerIdle
    /\ ConcIdle
    /\ OrchIdle

AddMCPServers(pluginName, marketplace, sv) ==
    /\ nCalls < MaxCalls
    /\ cfg' = AddMCPServersFile(cfg, pluginName, marketplace, ServersOf(sv))
    /\ cfgPrev' = cfg
    /\ callPrev' = call
    /\ call' = [op |-> "add", plugin |-> pluginName,
                marketplace |-> marketplace, servers |-> sv]
    /\ nCalls' = nCalls + 1
    /\ UNCHANGED <<cfgInit, ledgerVars, concVars, orchVars>>

RemoveMCPServers(pluginName) ==
    /\ nCalls < MaxCalls
    /\ cfg' = RemoveMCPServersFile(cfg, pluginName)
    /\ cfgPrev' = cfg
    /\ callPrev' = call
    /\ call' = [op |-> "remove", plugin |-> pluginName,
                marketplace |-> "", servers |-> ""]
    /\ nCalls' = nCalls + 1
    /\ UNCHANGED <<cfgInit, ledgerVars, concVars, orchVars>>

NextCodec ==
    \/ \E in \in AddInputs : AddMCPServers(in[1], in[2], in[3])
    \/ \E p \in PluginNames : RemoveMCPServers(p)

SpecCodec == InitCodec /\ [][NextCodec]_vars

-----------------------------------------------------------------------------
(* GenerateMCPServerTOML on server maps whose env bindings are references, *)
(* malformed references and literal values                                 *)

\* the keys of the env bindings
EnvKeys == {"HOME", "TOKEN"}

\* the values of the env bindings: $TOKEN, ${TOKEN}, ${ALT}, ${TOKEN
\* (no closing brace), $TOKEN} (no opening brace), and the literal /root
EnvValues ==
    {<<"$", "TOKEN">>, <<"$", "{", "TOKEN", "}">>, <<"$", "{", "ALT", "}">>,
     <<"$", "{", "TOKEN">>, <<"$", "TOKEN", "}">>, <<"/root">>}

\* the env maps of a server of .mcp.json
EnvMaps == UNION {[ks -> EnvValues] : ks \in SUBSET EnvKeys}

InitGenerate ==
    /\ CodecIdle
    /\ LedgerIdle
    /\ ConcIdle
    /\ OrchIdle

\* GenerateMCPServerTOML(pluginName, marketplace, {name: config}) is called,
\* config being base with the env bindings env
Generate(pluginName, marketplace, name, base, env) ==
    LET servers == (name :> [base EXCEPT !.env = env])
    IN  /\ gen' = [servers |-> servers,
                   text |-> GenerateMCPServerTOML(pluginName, marketplace, servers),
                   mismatches |-> GenerateMismatches(servers),
                   order |-> [NoOrder EXCEPT !.names = <<name>>]]
        /\ UNCHANGED <<codecVars, ledgerVars, concVars,
                       fs, cwd, offered, cmd, nOps, probe, un, ins, spin, upd, conf, auto>>

\* the env maps of the calls with two servers: both keys bound, to
\* references, to literals, or to one of each
RangedEnvMaps ==
    {("HOME" :> <<"$", "TOKEN">> @@ "TOKEN" :> <<"$", "{", "TOKEN", "}">>),
     ("HOME" :> <<"/root">> @@ "TOKEN" :> <<"/root">>),
     ("HOME" :> <<"/root">> @@ "TOKEN" :> <<"$", "TOKEN">>)}

\* GenerateMCPServerTOML is called with the servers alpha and beta, both
\* with the env bindings env, and the three maps are ranged over in the
\* orders nameOrder, envOrder and keyOrder
GenerateTwo(pluginName, marketplace, env, nameOrder, envOrder, keyOrder) ==
    LET servers == ("alpha" :> [CfgNpx EXCEPT !.env = env]
                    @@ "beta" :> [CfgHttp EXCEPT !.env = env])
    IN  /\ gen' = [servers |-> servers,
                   text |-> GenerateRanged(pluginName, marketplace, servers,
                                           nameOrder, envOrder, keyOrder),
                   mismatches |-> GenerateMismatches(servers),
                   order |-> [names |-> nameOrder, env |-> envOrder, keys |-> keyOrder]]
        /\ UNCHANGED <<codecVars, ledgerVars, concVars,
                       fs, cwd, offered, cmd, nOps, probe, un, ins, spin, upd, conf, auto>>

\* the orders in which a map with the keys ks can be ranged over
Ranges(ks) ==
    {q \in UNION {[1..n -> ks] : n \in {Cardinality(ks)}} :
        \A i, j \in 1..Len(q) : i # j => q[i] # q[j]}

NextGenerate ==
    \/ \E name \in {"alpha", "beta"}, base \in {CfgNpx, CfgHttp}, env \in EnvMaps :
          Generate(PFmt, "acme", name, base, env)
    \/ \E env \in RangedEnvMaps, nameOrder \in Ranges({"alpha", "beta"}),
          envOrder \in Ranges(EnvKeys), keyOrder \in Ranges(EnvKeys) :
          GenerateTwo(PFmt, "acme", env, nameOrder, envOrder, keyOrder)

SpecGenerate == InitGenerate /\ [][NextGenerate]_vars

-----------------------------------------------------------------------------
(* The ledger as a state machine: calls of the InstalledManager methods *)

IdA == <<PFmt, "acme">>
IdB == <<PLint, "acme">>

LedgerIDs == {IdA, IdB}

ProjectPaths == {"/p1", "/p2"}

Versions == {"v1", "v2"}

Entry(scope, projectPath, version) ==
    [scope |-> scope, projectPath |-> projectPath, version |-> version,
     cachePath |-> NoPath, skills |-> <<>>, commands |-> <<>>, mcpServers |-> <<>>]

\* the records callers pass to Add
LedgerEntries ==
    {Entry("global", "", "v1"), Entry("project", "/p2", "v1")}
    \cup {Entry("project", "/p1", v) : v \in Versions}

InitLedger ==
    /\ ledger \in {AbsentLedger, MalformedLedger}
    /\ ledgerPrev = ledger
    /\ lcall = NoLCall
    /\ lret = NoLRet
    /\ CodecIdle
    /\ ConcIdle
    /\ OrchIdle

DoLoad ==
    /\ lcall' = [NoLCall EXCEPT !.op = "Load"]
    /\ lret' = [err |-> Load(ledger).err, removed |-> <<>>, doc |-> Load(ledger).doc]
    /\ ledgerPrev' = ledger
    /\ UNCHANGED <<ledger, codecVars, concVars, orchVars>>

DoAdd(pluginID, entry, saveOk) ==
    LET r == Add(ledger, pluginID, entry, saveOk)
    IN  /\ lcall' = [NoLCall EXCEPT !.op = "Add", !.pluginID = pluginID, !.entry = entry]
        /\ lret' = [NoLRet EXCEPT !.err = r.err]
        /\ ledgerPrev' = ledger
        /\ ledger' = r.file
        /\ UNCHANGED <<codecVars, concVars, orchVars>>

DoRemove(pluginID, saveOk) ==
    LET r == Remove(ledger, pluginID, saveOk)
    IN  /\ lcall' = [NoLCall EXCEPT !.op = "Remove", !.pluginID = pluginID]
        /\ lret' = [NoLRet EXCEPT !.err = r.err]
        /\ ledgerPrev' = ledger
        /\ ledger' = r.file
        /\ UNCHANGED <<codecVars, concVars, orchVars>>

DoRemoveByScope(pluginID, scope, projectPath, saveOk) ==
    LET r == RemoveByScope(ledger, pluginID, scope, projectPath, saveOk)
    IN  /\ lcall' = [NoLCall EXCEPT !.op = "RemoveByScope", !.pluginID = pluginID,
                                    !.scope = scope, !.projectPath = projectPath]
        /\ lret' = [NoLRet EXCEPT !.err = r.err, !.removed = r.removed]
        /\ ledgerPrev' = ledger
        /\ ledger' = r.file
        /\ UNCHANGED <<codecVars, concVars, orchVars>>

NextLedger ==
    \/ DoLoad
    \/ \E id \in LedgerIDs, e \in LedgerEntries, ok \in BOOLEAN : DoAdd(id, e, ok)
    \/ \E id \in LedgerIDs, ok \in BOOLEAN : DoRemove(id, ok)
    \/ \E id \in LedgerIDs, sc \in {"all", "global", "project"},
          pp \in ProjectPaths, ok \in BOOLEAN : DoRemoveByScope(id, sc, pp, ok)

SpecLedger == InitLedger /\ [][NextLedger]_vars

-----------------------------------------------------------------------------
(* Two goroutines of one process, each running one ledger mutation.  Load   *)
(* holds the read lock while it reads the file, Save holds the write lock   *)
(* while it writes it; the mutation itself holds no lock in between.        *)

\* the mutations a goroutine may run
Jobs ==
    {[NoLCall EXCEPT !.op = "Add", !.pluginID = id, !.entry = e] :
        id \in LedgerIDs, e \in {Entry("global", "", "v1"), Entry("project", "/p1", "v2")}}
    \cup {[NoLCall EXCEPT !.op = "RemoveByScope", !.pluginID = IdA, !.scope = sc,
                          !.projectPath = "/p1"] : sc \in {"all", "global"}}
    \cup {[NoLCall EXCEPT !.op = "Remove", !.pluginID = IdA]}

\* the ledger files the goroutines may start from
StartLedgers ==
    {AbsentLedger,
     LedgerFile([version |-> 1,
                 plugins |-> (IdA :> <<Entry("global", "", "v1"),
                                       Entry("project", "/p1", "v1")>>)])}

\* the document a mutation saves, given the document it loaded
Mutate(j, doc) ==
    LET f == LedgerFile(doc)
    IN  IF j.op = "Add" THEN Add(f, j.pluginID, j.entry, TRUE).file
        ELSE IF j.op = "Remove" THEN Remove(f, j.pluginID, TRUE).file
        ELSE RemoveByScope(f, j.pluginID, j.scope, j.projectPath, TRUE).file

\* RemoveByScope returns before Save when pluginID has no entries
SkipsSave(j, doc) ==
    j.op = "RemoveByScope" /\ Len(EntriesOf(doc.plugins, j.pluginID)) = 0

\* the whole mutation applied to a ledger file at once
RunJob(j, file) ==
    IF j.op = "Add" THEN Add(file, j.pluginID, j.entry, TRUE).file
    ELSE IF j.op = "Remove" THEN Remove(file, j.pluginID, TRUE).file
    ELSE RemoveByScope(file, j.pluginID, j.scope, j.projectPath, TRUE).file

InitConc ==
    /\ ledger \in StartLedgers
    /\ ledger0 = ledger
    /\ job \in [Procs -> Jobs]
    /\ pc = [p \in Procs |-> "start"]
    /\ loaded = [p \in Procs |-> NewInstalledPlugins]
    /\ readers = 0
    /\ writer = FALSE
    /\ ledgerPrev = AbsentLedger
    /\ lcall = NoLCall
    /\ lret = NoLRet
    /\ CodecIdle
    /\ OrchIdle

ConcFrame == <<codecVars, ledgerPrev, lcall, lret, job, ledger0, orchVars>>

\* Load: m.mu.RLock()
RLock(p) ==
    /\ pc[p] = "start"
    /\ ~writer
    /\ readers' = readers + 1
    /\ pc' = [pc EXCEPT ![p] = "reading"]
    /\ UNCHANGED <<ledger, loaded, writer, ConcFrame>>

\* Load: os.ReadFile, json.Unmarshal
ReadFile(p) ==
    /\ pc[p] = "reading"
    /\ loaded' = [loaded EXCEPT ![p] = Load(ledger).doc]
    /\ pc' = [pc EXCEPT ![p] = "read"]
    /\ UNCHANGED <<ledger, readers, writer, ConcFrame>>

\* Load: deferred m.mu.RUnlock(); then the mutation of the loaded document
RUnlock(p) ==
    /\ pc[p] = "read"
    /\ readers' = readers - 1
    /\ pc' = [pc EXCEPT ![p] = IF SkipsSave(job[p], loaded[p]) THEN "done" ELSE "loaded"]
    /\ UNCHANGED <<ledger, loaded, writer, ConcFrame>>

\* Save: m.mu.Lock()
Lock(p) ==
    /\ pc[p] = "loaded"
    /\ ~writer /\ readers = 0
    /\ writer' = TRUE
    /\ pc' = [pc EXCEPT ![p] = "writing"]
    /\ UNCHANGED <<ledger, loaded, readers, ConcFrame>>

\* Save: json.MarshalIndent, os.WriteFile
WriteFile(p) ==
    /\ pc[p] = "writing"
    /\ ledger' = Mutate(job[p], loaded[p])
    /\ pc' = [pc EXCEPT ![p] = "written"]
    /\ UNCHANGED <<loaded, readers, writer, ConcFrame>>

\* Save: deferred m.mu.Unlock()
Unlock(p) ==
    /\ pc[p] = "written"
    /\ writer' = FALSE
    /\ pc' = [pc EXCEPT ![p] = "done"]
    /\ UNCHANGED <<ledger, loaded, readers, ConcFrame>>

NextConc ==
    \E p \in Procs :
        \/ RLock(p)
        \/ ReadFile(p)
        \/ RUnlock(p)
        \/ Lock(p)
        \/ WriteFile(p)
        \/ Unlock(p)

SpecConc == InitConc /\ [][NextConc]_vars

-----------------------------------------------------------------------------
(* package mcp: conflict detection *)

\* GetExistingMCPServerNames: the names of the [mcp_servers.NAME] and
\* [mcp_servers."NAME"] headers that start a line ("HU" is `[mcp_servers.')
GetExistingMCPServerNames(f) ==
    LET t == ReadConfig(f)
    IN  {t[i + 1] : i \in {j \in LineStartSet(t) :
                             /\ j + 2 <= Len(t)
                             /\ \/ t[j] = "HU" /\ t[j + 2] = "]"
                                \/ t[j] = "HQ" /\ t[j + 2] = "QH"}}

\* fmt.Sprintf(`...\[mcp_servers\.%q\]`, name) puts name into the pattern as
\* it is (regexp.QuoteMeta is applied to MarkerStartPrefix only): the names
\* the pattern text made of name matches.  A name of letters matches itself;
\* in "c+" the + is a repetition operator, so that the pattern matches "c",
\* "cc", ... and not "c+".
PatternNames(name) == IF name = "c+" THEN {"c", "cc"} ELSE {name}

\* markerPattern of CheckServerNameConflicts matches: some start marker is
\* followed, on a later line, by a quoted header that the pattern text made
\* of name matches
MarkerPatternMatches(t, name) ==
    \E s \in 1..Len(t) : \E x \in PatternNames(name) :
        /\ t[s] = MarkerStartPrefix
        /\ NextNL(t, s) # 0
        /\ FindEnd(t, NextNL(t, s) + 1, <<"HQ", x, "QH">>) # 0

\* CheckServerNameConflicts: the set of reported names
CheckServerNameConflicts(f, newServers) ==
    {name \in DOMAIN newServers :
        /\ name \in GetExistingMCPServerNames(f)
        /\ ~MarkerPatternMatches(ReadConfig(f), name)}

-----------------------------------------------------------------------------
(* package cmd: the plugin commands, as functions of the world             *)
(* w = [ledger, cfg, paths]: installed.json, config.toml and the set of paths *)
(* that exist.                                                             *)

HomeDir == "~"

\* the marketplace manifests: what each plugin of the catalog ships
Manifest(id) ==
    IF id = <<PFmt, "acme">>
    THEN [remote |-> FALSE, skills |-> <<"reviewer", "fmt">>, commands |-> <<"greet">>,
          servers |-> "SvAB"]
    ELSE [remote |-> TRUE, skills |-> <<"reviewer">>, commands |-> <<>>,
          servers |-> "SvA"]

\* a plugin name as the path element it is written as
NameText(pluginName) ==
    IF pluginName = PFmt THEN "fmt"
    ELSE IF pluginName = PFmt2 THEN "fmt2"
    ELSE "lint"

\* ResolveUniqueSkillPath / ResolveUniquePromptPath: the base path when it
\* does not exist, else the name with a random suffix
ResolveUniquePath(paths, kind, dir, name, sfx) ==
    IF Path(kind, dir, name, "") \notin paths
    THEN Path(kind, dir, name, "")
    ELSE Path(kind, dir, name, sfx)

\* variant: the destination of a skill whose copy failed is left as it is
FailedSkillCopyKept(paths, dest) == paths \cup {dest}

\* config.EnsureDir(skillDestPath) created the destination, plugin.CopyDir
\* failed: os.RemoveAll(skillDestPath)
FailedSkillCopy(paths, dest) == paths \ {dest}

\* plugin.CopyFile(src, dest): the file is written; a copy that fails
\* removes what it wrote
CopyFile(paths, dest, ok) == IF ok THEN paths \cup {dest} ELSE paths \ {dest}

\* the copy loop over the skills (kind "skill") or commands (kind "prompt")
\* of the source: items i..Len(names) are copied into paths; failAt is the index
\* of the item whose copy fails (0: none).
RECURSIVE CopyItems(_, _, _, _, _, _, _, _)
CopyItems(paths, kind, dir, names, i, sfx, failAt, done) ==
    IF i > Len(names) THEN [fs |-> paths, items |-> done, err |-> FALSE]
    ELSE LET dest == ResolveUniquePath(paths, kind, dir, names[i], sfx)
         IN  IF i = failAt
             THEN [fs |-> IF kind = "skill" THEN FailedSkillCopy(paths, dest)
                          ELSE CopyFile(paths, dest, FALSE),
                   items |-> done, err |-> TRUE]
             ELSE CopyItems(paths \cup {dest}, kind, dir, names, i + 1, sfx, failAt,
                            Append(done, [name |-> names[i], path |-> dest]))

\* the result of a command
Result(w, err) == [w |-> w, err |-> err]

\* the ledger's list of the servers written for plugin id: one element for
\* every name of kept, in the order in which the map is ranged over
InstalledServers(id, kept, rev) ==
    LET sorted == SortStrings(kept)
    IN  [i \in 1..Len(sorted) |->
            [name |-> IF rev THEN sorted[Len(sorted) + 1 - i] ELSE sorted[i],
             plugin |-> id]]

\* the servers left after the conflicts were dropped are written to the
\* config file; a failed write is only warned about
WriteServers(f, id, declared, kept, in) ==
    IF kept # {} /\ in.fail # "mcpwrite"
    THEN [cfg |-> AddMCPServersFile(f, id[1], id[2], [n \in kept |-> declared[n]]),
          servers |-> InstalledServers(id, kept, in.rev)]
    ELSE [cfg |-> f, servers |-> <<>>]

\* the MCP step of runPluginInstall: conflict detection, then the write
installMCPServers(f, id, declared, in) ==
    WriteServers(f, id, declared,
                 DOMAIN declared \ CheckServerNameConflicts(f, declared), in)

\* variant: the ledger record is written before the cache copy is made
cacheAndRecordEarly(w, id, scope, projectPath, version, in, skills, commands, paths, mcp) ==
    LET cachePath == Path("cache", id[2], NameText(id[1]), version)
        entry == [scope |-> scope, projectPath |-> projectPath, version |-> version,
                  cachePath |-> cachePath, skills |-> skills, commands |-> commands,
                  mcpServers |-> mcp.servers]
        added == Add(w.ledger, id, entry, in.fail # "save")
    IN  IF added.err
        THEN Result([w EXCEPT !.fs = paths, !.cfg = mcp.cfg], "SaveFailed")
        ELSE IF in.fail = "cache"
        THEN Result([ledger |-> added.file, cfg |-> mcp.cfg, fs |-> paths \ {cachePath}],
                    "CacheFailed")
        ELSE Result([ledger |-> added.file, cfg |-> mcp.cfg, fs |-> paths \cup {cachePath}], "")

\* the end of runPluginInstall: the cache copy, then the ledger record.
\* paths is the file system after the copies, mcp the result of the MCP step.
cacheAndRecord(w, id, scope, projectPath, version, in, skills, commands, paths, mcp) ==
    LET cachePath == Path("cache", id[2], NameText(id[1]), version)
        entry == [scope |-> scope, projectPath |-> projectPath, version |-> version,
                  cachePath |-> cachePath, skills |-> skills, commands |-> commands,
                  mcpServers |-> mcp.servers]
        added == Add(w.ledger, id, entry, in.fail # "save")
    IN  IF in.fail = "cache"
        THEN Result([w EXCEPT !.fs = paths \ {cachePath}, !.cfg = mcp.cfg], "CacheFailed")
        ELSE IF added.err
        THEN Result([w EXCEPT !.fs = paths \cup {cachePath}, !.cfg = mcp.cfg], "SaveFailed")
        ELSE Result([ledger |-> added.file, cfg |-> mcp.cfg, fs |-> paths \cup {cachePath}], "")

\* runPluginInstall.  scope is the --scope flag, wd the working directory,
\* version the version resolved from the marketplace; in names the step that
\* fails (if any), the random suffix drawn and whether the server map is
\* ranged over in descending order.
runPluginInstall(w, id, scope, wd, version, in) ==
    LET m == Manifest(id)
        projectPath == IF scope = "project" THEN wd ELSE ""
        existing == GetByScope(w.ledger, id, scope, projectPath)
        dir == IF scope = "project" THEN wd ELSE HomeDir
        sk == CopyItems(w.fs, "skill", dir, m.skills, 1, in.sfx,
                        IF in.fail = "skill" THEN Len(m.skills) ELSE 0, <<>>)
        cm == CopyItems(sk.fs, "prompt", dir, m.commands, 1, in.sfx,
                        IF in.fail = "command" THEN Len(m.commands) ELSE 0, <<>>)
        declared == IF m.servers = "" THEN <<>> ELSE ServersOf(m.servers)
    IN  IF in.fail = "source" THEN Result(w, "SourceUnavailable")
        ELSE IF existing.err THEN Result(w, "ParseError")
        ELSE IF Len(existing.entries) > 0 THEN Result(w, "AlreadyInstalled")
        ELSE IF sk.err THEN Result([w EXCEPT !.fs = sk.fs], "CopyFailed")
        ELSE IF cm.err THEN Result([w EXCEPT !.fs = cm.fs], "CopyFailed")
        ELSE cacheAndRecord(w, id, scope, projectPath, version, in, sk.items, cm.items,
                            cm.fs, installMCPServers(w.cfg, id, declared, in))

\* the paths runPluginUninstall removes for the removed records
RemovedPaths(removed) ==
    UNION {{removed[i].skills[k].path : k \in 1..Len(removed[i].skills)}
           \cup {removed[i].commands[k].path : k \in 1..Len(removed[i].commands)}
           \cup (IF removed[i].cachePath.kind # "" THEN {removed[i].cachePath} ELSE {})
             : i \in 1..Len(removed)}

\* runPluginUninstall.  in = [rmOk, saveOk]: the removals of files succeed,
\* the ledger write succeeds.
runPluginUninstall(w, id, scope, wd, in) ==
    LET pluginName == id[1]
        entries == GetByScope(w.ledger, id, scope, wd)
        r == RemoveByScope(w.ledger, id, scope, wd, in.saveOk)
        hasServers == \E i \in 1..Len(r.removed) : Len(r.removed[i].mcpServers) > 0
    IN  IF scope \notin {"global", "project", "all"} THEN Result(w, "InvalidScope")
        ELSE IF entries.err THEN Result(w, "ParseError")
        ELSE IF Len(entries.entries) = 0 THEN Result(w, "NotInstalled")
        ELSE IF r.err THEN Result(w, "SaveFailed")
        ELSE Result([ledger |-> r.file,
                     cfg |-> IF hasServers /\ in.rmOk
                             THEN RemoveMCPServersFile(w.cfg, pluginName)
                             ELSE w.cfg,
                     fs |-> IF in.rmOk THEN w.fs \ RemovedPaths(r.removed) ELSE w.fs],
                    "")

\* the result r of a step of reinstallPlugin, its error wrapped as err
Wrapped(r, err) == Result(r.w, IF r.err # "" THEN err ELSE "")

\* the second half of reinstallPlugin, u being the result of the uninstall
reinstallAfter(u, id, entry, wd, version, in) ==
    IF u.err # "" THEN Wrapped(u, "UninstallFailed")
    ELSE Wrapped(runPluginInstall(u.w, id, entry.scope,
                                  IF entry.scope = "project" /\ entry.projectPath # ""
                                  THEN entry.projectPath ELSE wd,
                                  version, in),
                 "ReinstallFailed")

\* reinstallPlugin: uninstall with the record's scope from the working
\* directory, then install with the record's scope from the record's
\* project directory
reinstallPlugin(w, id, entry, wd, version, in) ==
    reinstallAfter(runPluginUninstall(w, id, entry.scope, wd, in),
                   id, entry, wd, version, in)

\* checkPluginNeedsUpdate
checkPluginNeedsUpdate(entry, newVersion) == entry.version # newVersion

\* the update items of runPluginUpdate: the records of the ids, in order,
\* that need an update (or all of them when forced)
RECURSIVE UpdateItems(_, _, _, _)
UpdateItems(doc, ids, offer, force) ==
    IF ids = <<>> THEN <<>>
    ELSE LET id == Head(ids)
             es == EntriesOf(doc.plugins, id)
         IN  SelectSeq([k \in 1..Len(es) |-> [id |-> id, entry |-> es[k]]],
                       LAMBDA it : force \/ checkPluginNeedsUpdate(it.entry, offer[id]))
             \o UpdateItems(doc, Tail(ids), offer, force)

\* the reinstall loop of runPluginUpdate over items; stop: an error ends the
\* loop (single plugin), else the loop goes on (batch).  ApplyRest continues
\* after the reinstall of the first item returned r.
RECURSIVE ApplyUpdates(_, _, _, _, _, _)
RECURSIVE ApplyRest(_, _, _, _, _, _)
ApplyUpdates(w, items, wd, offer, in, stop) ==
    IF items = <<>> THEN Result(w, "")
    ELSE ApplyRest(reinstallPlugin(w, Head(items).id, Head(items).entry, wd,
                                   offer[Head(items).id], in),
                   Tail(items), wd, offer, in, stop)

ApplyRest(r, rest, wd, offer, in, stop) ==
    IF r.err # "" /\ stop THEN r
    ELSE ApplyUpdates(r.w, rest, wd, offer, in, stop)

-----------------------------------------------------------------------------
(* The commands as a state machine *)

In(fail, sfx, rev, rmOk, saveOk) ==
    [fail |-> fail, sfx |-> sfx, rev |-> rev, rmOk |-> rmOk, saveOk |-> saveOk]

\* an install or update in which no step fails
NoFault == In("none", "s1", FALSE, TRUE, TRUE)

\* what can go wrong in an install, the suffix drawn, the map order
InstallInputs ==
    {In("none", "s1", FALSE, TRUE, TRUE), In("none", "s2", TRUE, TRUE, TRUE)}
    \cup {In(f, "s1", FALSE, TRUE, TRUE) :
            f \in {"source", "skill", "mcpwrite", "cache", "save"}}

UninstallInputs ==
    {In("none", "", FALSE, TRUE, TRUE), In("none", "", FALSE, FALSE, TRUE),
     In("none", "", FALSE, TRUE, FALSE)}

UpdateInputs ==
    {In("none", "s1", FALSE, TRUE, TRUE), In("cache", "s1", FALSE, TRUE, TRUE)}

\* the values passed as --scope
InstallScopes == {"global", "project", "local"}
UninstallScopes == {"global", "project", "all"}

\* a config file in which the user declared the server beta by hand
UserServerFile == <<"u1", NL, "HU", "beta", "]", NL, "command = x", NL>>

World == [ledger |-> ledger, cfg |-> cfg, fs |-> fs]

\* before anything was installed: no ledger, no artifacts, config file f
FreshWorld(f) == [ledger |-> AbsentLedger, cfg |-> f, fs |-> {}]

\* the world w after the user appended a section to the config file
UserAppended(w, section) ==
    [w EXCEPT !.cfg = [exists |-> TRUE, text |-> ReadConfig(w.cfg) \o section]]

\* the worlds the commands start from: fresh ones, the one in which
\* fmt@acme was installed earlier with project scope from /p2, the one
\* in which fmt@beta was installed earlier with global scope and the user
\* then declared the server beta by hand at the end of the config file, and
\* the one in which an install of fmt@beta with global scope failed at the
\* cache copy
StartWorlds ==
    {FreshWorld([exists |-> FALSE, text |-> <<>>]),
     FreshWorld([exists |-> TRUE, text |-> UserServerFile]),
     runPluginInstall(FreshWorld([exists |-> FALSE, text |-> <<>>]), <<PFmt, "acme">>,
                      "project", "/p2", "v1", In("none", "s1", FALSE, TRUE, TRUE)).w,
     UserAppended(runPluginInstall(FreshWorld([exists |-> FALSE, text |-> <<>>]),
                                   <<PFmt, "beta">>, "global", "/p1", "v1",
                                   In("none", "s1", FALSE, TRUE, TRUE)).w,
                  <<"HQ", "beta", "QH", NL, "command = x", NL>>),
     runPluginInstall(FreshWorld([exists |-> FALSE, text |-> <<>>]), <<PFmt, "beta">>,
                      "global", "/p1", "v1", In("cache", "s1", FALSE, TRUE, TRUE)).w}

Init ==
    /\ \E w \in StartWorlds : ledger = w.ledger /\ cfg = w.cfg /\ fs = w.fs
    /\ cwd = "/p1"
    /\ offered = [id \in OrchIDs |-> "v1"]
    /\ cmd = NoCmd
    /\ nOps = 0
    /\ probe = NoProbe
    /\ un = NoUn
    /\ ins = NoIns
    /\ spin = NoSpin
    /\ gen = NoGen
    /\ upd = NoUpd
    /\ conf = NoConf
    /\ auto = NoAuto
    /\ cfgInit = cfg
    /\ cfgPrev = [exists |-> FALSE, text |-> <<>>]
    /\ call = NoCall
    /\ callPrev = NoCall
    /\ nCalls = 0
    /\ ledgerPrev = AbsentLedger
    /\ lcall = NoLCall
    /\ lret = NoLRet
    /\ ConcIdle

OrchFrame ==
    <<cfgInit, cfgPrev, call, callPrev, nCalls, ledgerPrev, lcall, lret, concVars,
      probe, un, ins, spin, gen, upd, conf, auto>>

\* the command returned r; warned is the step whose failure it only printed
\* a warning about ("" when there was none)
Returns(name, id, scope, warned, r) ==
    /\ ledger' = r.w.ledger
    /\ cfg' = r.w.cfg
    /\ fs' = r.w.fs
    /\ cmd' = [name |-> name, id |-> id, scope |-> scope, warned |-> warned,
               err |-> r.err]
    /\ nOps' = nOps + 1
    /\ UNCHANGED <<cwd, OrchFrame>>

\* the install r of plugin id into config file f went on after
\* mcp.AddMCPServers returned an error
InstallWarned(r, f, id, in) ==
    IF /\ in.fail = "mcpwrite"
       /\ r.err = ""
       /\ DOMAIN ServersOf(Manifest(id).servers)
            \ CheckServerNameConflicts(f, ServersOf(Manifest(id).servers)) # {}
    THEN "mcpwrite" ELSE ""

\* the uninstall r went on after removals of artifacts returned errors
UninstallWarned(r, in) == IF ~in.rmOk /\ r.err = "" THEN "remove" ELSE ""

\* codex-market plugin install <id> -s <scope>
Install(id, scope, in) ==
    /\ nOps < MaxOps
    /\ Returns("install", id, scope,
               InstallWarned(runPluginInstall(World, id, scope, cwd, offered[id], in),
                             cfg, id, in),
               runPluginInstall(World, id, scope, cwd, offered[id], in))
    /\ UNCHANGED offered

\* codex-market plugin uninstall <id> -s <scope>
Uninstall(id, scope, in) ==
    /\ nOps < MaxOps
    /\ Returns("uninstall", id, scope,
               UninstallWarned(runPluginUninstall(World, id, scope, cwd, in), in),
               runPluginUninstall(World, id, scope, cwd, in))
    /\ UNCHANGED offered

\* git pull of the marketplace clones mkts: "new" brings version v2
Pulled(mkts, pull) ==
    [id \in OrchIDs |-> IF pull = "new" /\ id[2] \in mkts THEN "v2" ELSE offered[id]]

\* codex-market plugin update <id> [--force]
UpdateOne(id, force, pull, in) ==
    LET l == Load(ledger)
        offer == Pulled({id[2]}, pull)
        items == UpdateItems(l.doc, <<id>>, offer, force)
    IN  /\ nOps < MaxOps
        /\ IF l.err \/ Len(EntriesOf(l.doc.plugins, id)) = 0
           THEN Returns("update", id, "", "", Result(World, "NotInstalled")) /\ UNCHANGED offered
           ELSE IF pull = "fail"
           THEN Returns("update", id, "", "", Result(World, "PullFailed")) /\ UNCHANGED offered
           ELSE /\ Returns("update", id, "", "", ApplyUpdates(World, items, cwd, offer, in, TRUE))
                /\ offered' = offer

\* codex-market plugin update [--force]; order is the order in which the
\* plugin map is ranged over
UpdateAll(force, pull, order, in) ==
    LET l == Load(ledger)
        offer == Pulled({id[2] : id \in OrchIDs}, pull)
        items == UpdateItems(l.doc, order, offer, force)
    IN  /\ nOps < MaxOps
        /\ {order[i] : i \in 1..Len(order)} = DOMAIN l.doc.plugins
        /\ IF l.err
           THEN Returns("update", <<>>, "", "", Result(World, "ParseError")) /\ UNCHANGED offered
           ELSE IF DOMAIN l.doc.plugins = {}
           THEN Returns("update", <<>>, "", "", Result(World, "")) /\ UNCHANGED offered
           ELSE /\ Returns("update", <<>>, "", "", ApplyUpdates(World, items, cwd, offer, in, FALSE))
                /\ offered' = offer

\* cd <d>: the user changes the working directory
Chdir(d) ==
    /\ nOps < MaxOps
    /\ d # cwd
    /\ cwd' = d
    /\ cmd' = [NoCmd EXCEPT !.name = "cd"]
    /\ nOps' = nOps + 1
    /\ UNCHANGED <<ledger, cfg, fs, offered, OrchFrame>>

\* the orders in which a map with keys ids can be ranged over
Orders(ids) ==
    {o \in UNION {[1..n -> ids] : n \in 0..Cardinality(ids)} :
        /\ Len(o) = Cardinality(ids)
        /\ \A i, j \in 1..Len(o) : i # j => o[i] # o[j]}

Next ==
    \/ \E id \in OrchIDs, sc \in InstallScopes, in \in InstallInputs : Install(id, sc, in)
    \/ \E id \in OrchIDs, sc \in UninstallScopes, in \in UninstallInputs : Uninstall(id, sc, in)
    \/ \E id \in OrchIDs, force \in BOOLEAN, pull \in {"same", "new", "fail"},
          in \in UpdateInputs : UpdateOne(id, force, pull, in)
    \/ \E force \in BOOLEAN, pull \in {"same", "new", "fail"},
          order \in Orders(OrchIDs) \cup Orders({<<PFmt, "acme">>})
                    \cup Orders({<<PFmt, "beta">>}) \cup {<<>>},
          in \in UpdateInputs : UpdateAll(force, pull, order, in)
    \/ \E d \in ProjectPaths : Chdir(d)

Spec == Init /\ [][Next]_vars

-----------------------------------------------------------------------------
(* Conflict detection as a state machine: the config file is edited by the *)
(* MCP step of installs, by the removal of blocks and by the user's hand,  *)
(* and CheckServerNameConflicts is called on what results.                 *)

\* the plugins whose servers are installed
ConflictIDs == {<<PFmt, "acme">>, <<PLint, "acme">>}

\* the server maps of the .mcp.json files
ServerMaps == {"SvA", "SvAB", "SvC"}

\* a server section as the user writes it by hand
QuotedSection(name) == <<"HQ", name, "QH", NL, "command = x", NL>>

UnquotedSection(name) == <<"HU", name, "]", NL, "command = x", NL>>

UserSections == {QuotedSection("alpha"), UnquotedSection("beta")}

InitConflicts ==
    /\ cfg \in {[exists |-> FALSE, text |-> <<>>],
                [exists |-> TRUE, text |-> UserServerFile]}
    /\ cfgInit = cfg
    /\ cfgPrev = cfg
    /\ call = NoCall
    /\ callPrev = NoCall
    /\ nCalls = 0
    /\ LedgerIdle
    /\ ConcIdle
    /\ OrchIdle

ConflictFrame ==
    <<cfgInit, cfgPrev, call, callPrev, ledgerVars, concVars,
      fs, cwd, offered, cmd, nOps, un, ins, spin, gen, upd, conf, auto>>

\* the config file was changed: what the last check returned is outdated
Edited(f) ==
    /\ nCalls < MaxEdits
    /\ cfg' = f
    /\ nCalls' = nCalls + 1
    /\ probe' = NoProbe
    /\ UNCHANGED ConflictFrame

\* the MCP step of an install of plugin id that declares the servers sv
InstallServers(id, sv) ==
    Edited(installMCPServers(cfg, id, ServersOf(sv),
                             In("none", "s1", FALSE, TRUE, TRUE)).cfg)

\* the MCP step of an uninstall of plugin id
UninstallServers(id) == Edited(RemoveMCPServersFile(cfg, id[1]))

\* the user appends a server section to the config file
UserAppends(section) ==
    Edited([exists |-> TRUE, text |-> ReadConfig(cfg) \o section])

\* CheckServerNameConflicts(configPath, servers) is called while plugin id
\* is installed
CheckConflicts(id, sv) ==
    /\ probe' = [plugin |-> id[1], servers |-> DOMAIN ServersOf(sv),
                 conflicts |-> CheckServerNameConflicts(cfg, ServersOf(sv))]
    /\ UNCHANGED <<cfg, nCalls, ConflictFrame>>

NextConflicts ==
    \/ \E id \in ConflictIDs, sv \in ServerMaps : InstallServers(id, sv)
    \/ \E id \in ConflictIDs : UninstallServers(id)
    \/ \E section \in UserSections : UserAppends(section)
    \/ \E id \in ConflictIDs, sv \in ServerMaps : CheckConflicts(id, sv)

SpecConflicts == InitConflicts /\ [][NextConflicts]_vars

-----------------------------------------------------------------------------
(* runPluginUninstall step by step: the scope check and GetByScope, then   *)
(* RemoveByScope, then for every removed record its skills, its commands,  *)
(* its MCP block and its cache copy.                                       *)

\* the world after plugin id was installed into w with scope from wd
Installed(w, id, scope, wd) == runPluginInstall(w, id, scope, wd, "v1", NoFault).w

\* the worlds an uninstall starts from
UninstallWorlds ==
    LET g == Installed(FreshWorld([exists |-> FALSE, text |-> <<>>]),
                       <<PFmt, "acme">>, "global", "/p1")
        gp == Installed(g, <<PFmt, "acme">>, "project", "/p1")
    IN  {g, gp, Installed(gp, <<PFmt, "beta">>, "global", "/p1")}

\* what stands for the managed block of plugin id among the artifacts
MCPBlock(id) == Path("mcp", "", NameText(id[1]), "")

SkillPaths(entry) == {entry.skills[j].path : j \in 1..Len(entry.skills)}

CommandPaths(entry) == {entry.commands[j].path : j \in 1..Len(entry.commands)}

InitUninstall ==
    /\ \E w \in UninstallWorlds : ledger = w.ledger /\ cfg = w.cfg /\ fs = w.fs
    /\ cwd \in ProjectPaths
    /\ offered = [id \in OrchIDs |-> "v1"]
    /\ cmd = NoCmd
    /\ nOps = 0
    /\ probe = NoProbe
    /\ un = NoUn
    /\ ins = NoIns
    /\ spin = NoSpin
    /\ gen = NoGen
    /\ upd = NoUpd
    /\ conf = NoConf
    /\ auto = NoAuto
    /\ cfgInit = cfg
    /\ cfgPrev = [exists |-> FALSE, text |-> <<>>]
    /\ call = NoCall
    /\ callPrev = NoCall
    /\ nCalls = 0
    /\ ledgerPrev = AbsentLedger
    /\ lcall = NoLCall
    /\ lret = NoLRet
    /\ ConcIdle

UninstallFrame ==
    <<cfgInit, cfgPrev, call, callPrev, nCalls, ledgerPrev, lcall, lret, concVars,
      cwd, offered, cmd, probe, ins, spin, gen, upd, conf, auto>>

\* the uninstall returns err before it has changed anything
Refused(id, scope, err) ==
    [NoUn EXCEPT !.pc = "done", !.id = id, !.scope = scope, !.err = err]

\* the scope check and GetByScope
UnBegin(id, scope) ==
    /\ un.pc \in {"idle", "done"}
    /\ nOps < MaxUninstalls
    /\ nOps' = nOps + 1
    /\ un' = IF scope \notin {"global", "project", "all"}
             THEN Refused(id, scope, "InvalidScope")
             ELSE IF GetByScope(ledger, id, scope, cwd).err
             THEN Refused(id, scope, "ParseError")
             ELSE IF Len(GetByScope(ledger, id, scope, cwd).entries) = 0
             THEN Refused(id, scope, "NotInstalled")
             ELSE [NoUn EXCEPT !.pc = "ledger", !.id = id, !.scope = scope,
                               !.entries = GetByScope(ledger, id, scope, cwd).entries]
    /\ UNCHANGED <<ledger, cfg, fs, UninstallFrame>>

\* installed.RemoveByScope(pluginID, scope, cwd)
UnRemoveByScope(saveOk) ==
    /\ un.pc = "ledger"
    /\ LET r == RemoveByScope(ledger, un.id, un.scope, cwd, saveOk)
       IN  IF r.err
           THEN /\ un' = [un EXCEPT !.pc = "done", !.err = "SaveFailed"]
                /\ UNCHANGED ledger
           ELSE /\ ledger' = r.file
                /\ un' = [un EXCEPT !.removed = r.removed, !.k = 1,
                                    !.pc = IF r.removed = <<>> THEN "done" ELSE "skills"]
    /\ UNCHANGED <<cfg, fs, nOps, UninstallFrame>>

\* variant: an artifact that cannot be removed ends the uninstall
StepAfterAborts(step, failed, more) ==
    IF failed THEN "done"
    ELSE IF step = "skills" THEN "commands"
    ELSE IF step = "commands" THEN "mcp"
    ELSE IF step = "mcp" THEN "cache"
    ELSE IF more THEN "skills" ELSE "done"

\* the step that follows step of the loop body; failed: a removal of step
\* returned an error, more: the record is not the last one removed
StepAfter(step, failed, more) ==
    IF step = "skills" THEN "commands"
    ELSE IF step = "commands" THEN "mcp"
    ELSE IF step = "mcp" THEN "cache"
    ELSE IF more THEN "skills" ELSE "done"

\* step has attempted to remove the artifacts tried, those of fail failed
Attempted(step, tried, fail) ==
    [un EXCEPT !.attempted = @ \cup tried, !.failed = @ \cup fail,
               !.pc = StepAfter(step, fail # {}, un.k < Len(un.removed)),
               !.k = IF StepAfter(step, fail # {}, un.k < Len(un.removed)) = "skills"
                     THEN @ + 1 ELSE @]

\* os.RemoveAll(skill.Path) for every skill of the record; the removals of
\* the paths of fail return an error
UnSkills ==
    /\ un.pc = "skills"
    /\ \E fail \in SUBSET SkillPaths(un.removed[un.k]) :
          /\ fs' = fs \ (SkillPaths(un.removed[un.k]) \ fail)
          /\ un' = Attempted("skills", SkillPaths(un.removed[un.k]), fail)
    /\ UNCHANGED <<ledger, cfg, nOps, UninstallFrame>>

\* os.Remove(command.Path) for every command of the record
UnCommands ==
    /\ un.pc = "commands"
    /\ \E fail \in SUBSET CommandPaths(un.removed[un.k]) :
          /\ fs' = fs \ (CommandPaths(un.removed[un.k]) \ fail)
          /\ un' = Attempted("commands", CommandPaths(un.removed[un.k]), fail)
    /\ UNCHANGED <<ledger, cfg, nOps, UninstallFrame>>

\* mcp.RemoveMCPServers when the record lists servers
UnMCP(ok) ==
    /\ un.pc = "mcp"
    /\ IF Len(un.removed[un.k].mcpServers) > 0
       THEN /\ cfg' = IF ok THEN RemoveMCPServersFile(cfg, un.id[1]) ELSE cfg
            /\ un' = Attempted("mcp", {MCPBlock(un.id)},
                               IF ok THEN {} ELSE {MCPBlock(un.id)})
       ELSE /\ ok
            /\ cfg' = cfg
            /\ un' = Attempted("mcp", {}, {})
    /\ UNCHANGED <<ledger, fs, nOps, UninstallFrame>>

\* os.RemoveAll(entry.Source.CachePath) when the record has a cache path
UnCache(ok) ==
    /\ un.pc = "cache"
    /\ IF un.removed[un.k].cachePath.kind # ""
       THEN /\ fs' = IF ok THEN fs \ {un.removed[un.k].cachePath} ELSE fs
            /\ un' = Attempted("cache", {un.removed[un.k].cachePath},
                               IF ok THEN {} ELSE {un.removed[un.k].cachePath})
       ELSE /\ ok
            /\ fs' = fs
            /\ un' = Attempted("cache", {}, {})
    /\ UNCHANGED <<ledger, cfg, nOps, UninstallFrame>>

NextUninstall ==
    \/ \E id \in OrchIDs, scope \in UninstallScopes \cup {"local"} : UnBegin(id, scope)
    \/ \E saveOk \in BOOLEAN : UnRemoveByScope(saveOk)
    \/ UnSkills
    \/ UnCommands
    \/ \E ok \in BOOLEAN : UnMCP(ok)
    \/ \E ok \in BOOLEAN : UnCache(ok)

SpecUninstall == InitUninstall /\ [][NextUninstall]_vars

-----------------------------------------------------------------------------
(* runPluginInstall step by step: the source (a clone into a temporary     *)
(* directory when it is remote), the AlreadyInstalled check, one copy per  *)
(* skill and per command, the MCP step, the cache copy, the ledger record. *)
(* A step that returns runs the deferred calls.                            *)

MaxInstalls == 2

\* the plugins that are installed one after the other
InstallIDs == {<<PFmt, "acme">>, <<PFmt, "beta">>, <<PLint, "acme">>}

\* the suffixes GenerateRandomSuffix can return
Suffixes == {"s1", "s2"}

\* the directory os.MkdirTemp("", "codex-plugin-*") creates
TempCloneDir == Path("tmp", "", "codex-plugin", "")

\* the local source directory of a plugin that is not remote
LocalSource == Path("src", "", "marketplace", "")

\* the worlds the installs start from: nothing installed, or fmt@beta
\* installed with global scope
InstallWorlds ==
    {FreshWorld([exists |-> FALSE, text |-> <<>>]),
     Installed(FreshWorld([exists |-> FALSE, text |-> <<>>]), <<PFmt, "beta">>,
               "global", "/p1")}

InitInstall ==
    /\ \E w \in InstallWorlds : ledger = w.ledger /\ cfg = w.cfg /\ fs = w.fs
    /\ cwd = "/p1"
    /\ offered = [id \in InstallIDs |-> "v1"]
    /\ cmd = NoCmd
    /\ nOps = 0
    /\ probe = NoProbe
    /\ un = NoUn
    /\ ins = NoIns
    /\ spin = NoSpin
    /\ gen = NoGen
    /\ upd = NoUpd
    /\ conf = NoConf
    /\ auto = NoAuto
    /\ cfgInit = cfg
    /\ cfgPrev = cfg
    /\ call = NoCall
    /\ callPrev = NoCall
    /\ nCalls = 0
    /\ ledgerPrev = AbsentLedger
    /\ lcall = NoLCall
    /\ lret = NoLRet
    /\ ConcIdle

InstallFrame ==
    <<cfgInit, cfgPrev, call, callPrev, nCalls, ledgerPrev, lcall, lret, concVars,
      cwd, offered, cmd, probe, un, spin, gen, upd, conf, auto>>

\* variant: the deferred calls are skipped
RunDeferredSkipped(paths, deferred) == paths

\* the deferred os.RemoveAll calls, run when the function returns
RunDeferred(paths, deferred) == paths \ {deferred[i] : i \in 1..Len(deferred)}

\* runPluginInstall returns err; paths is the file system it leaves
InsReturn(paths, err) ==
    /\ fs' = RunDeferred(paths, ins.deferred)
    /\ ins' = [ins EXCEPT !.pc = "done", !.err = err, !.deferred = <<>>]

\* the step that follows the AlreadyInstalled check, and the one that
\* follows the skills
AfterSkills(id) == IF Len(Manifest(id).commands) > 0 THEN "commands" ELSE "mcp"

AfterCheckRecords(id) == "record"

AfterCheck(id) == IF Len(Manifest(id).skills) > 0 THEN "skills" ELSE AfterSkills(id)

\* the skills or prompts directory of the install
InsDir == IF ins.scope = "project" THEN cwd ELSE HomeDir

\* parsePluginID, the registry, the manifest and the plugin entry
InsBegin(id, scope) ==
    /\ ins.pc \in {"idle", "done"}
    /\ nOps < MaxInstalls
    /\ nOps' = nOps + 1
    /\ ins' = [NoIns EXCEPT !.pc = "source", !.id = id, !.scope = scope]
    /\ UNCHANGED <<ledger, cfg, fs, InstallFrame>>

\* the source: os.MkdirTemp, the deferred os.RemoveAll and the clone for a
\* remote source (made: MkdirTemp succeeded), os.Stat for a local one
InsSource(made, ok) ==
    /\ ins.pc = "source"
    /\ IF Manifest(ins.id).remote
       THEN IF ~made
            THEN InsReturn(fs, "TempDirFailed")
            ELSE IF ~ok
            THEN /\ fs' = RunDeferred(fs \cup {TempCloneDir}, <<TempCloneDir>>)
                 /\ ins' = [ins EXCEPT !.pc = "done", !.err = "SourceUnavailable"]
            ELSE /\ fs' = fs \cup {TempCloneDir}
                 /\ ins' = [ins EXCEPT !.pc = "check", !.src = TempCloneDir,
                                       !.deferred = <<TempCloneDir>>]
       ELSE /\ made
            /\ IF ~ok
               THEN InsReturn(fs, "SourceUnavailable")
               ELSE /\ fs' = fs
                    /\ ins' = [ins EXCEPT !.pc = "check", !.src = LocalSource]
    /\ UNCHANGED <<ledger, cfg, nOps, InstallFrame>>

\* GetByScope and the AlreadyInstalled check
InsCheck ==
    /\ ins.pc = "check"
    /\ LET existing == GetByScope(ledger, ins.id, ins.scope,
                                  IF ins.scope = "project" THEN cwd ELSE "")
       IN  IF existing.err THEN InsReturn(fs, "ParseError")
           ELSE IF Len(existing.entries) > 0 THEN InsReturn(fs, "AlreadyInstalled")
           ELSE /\ fs' = fs
                /\ ins' = [ins EXCEPT !.pc = AfterCheck(ins.id), !.k = 1]
    /\ UNCHANGED <<ledger, cfg, nOps, InstallFrame>>

\* one turn of the loop over the skills of the source; sfx is the suffix
\* drawn when the base path exists
InsSkill(sfx, ok) ==
    /\ ins.pc = "skills"
    /\ LET name == Manifest(ins.id).skills[ins.k]
           dest == ResolveUniquePath(fs, "skill", InsDir, name, sfx)
           last == ins.k = Len(Manifest(ins.id).skills)
       IN  IF ~ok
           THEN /\ fs' = RunDeferred(FailedSkillCopy(fs, dest), ins.deferred)
                /\ ins' = [ins EXCEPT !.pc = "done", !.err = "CopyFailed",
                                      !.deferred = <<>>,
                                      !.dest = dest, !.existed = dest \in fs]
           ELSE /\ fs' = fs \cup {dest}
                /\ ins' = [ins EXCEPT !.skills = Append(@, [name |-> name, path |-> dest]),
                                      !.dest = dest, !.existed = dest \in fs,
                                      !.k = IF last THEN 1 ELSE @ + 1,
                                      !.pc = IF last THEN AfterSkills(ins.id) ELSE @]
    /\ UNCHANGED <<ledger, cfg, nOps, InstallFrame>>

\* one turn of the loop over the command files of the source
InsCommand(sfx, ok) ==
    /\ ins.pc = "commands"
    /\ LET name == Manifest(ins.id).commands[ins.k]
           dest == ResolveUniquePath(fs, "prompt", InsDir, name, sfx)
           last == ins.k = Len(Manifest(ins.id).commands)
       IN  IF ~ok
           THEN /\ fs' = RunDeferred(CopyFile(fs, dest, FALSE), ins.deferred)
                /\ ins' = [ins EXCEPT !.pc = "done", !.err = "CopyFailed",
                                      !.deferred = <<>>,
                                      !.dest = dest, !.existed = dest \in fs]
           ELSE /\ fs' = CopyFile(fs, dest, TRUE)
                /\ ins' = [ins EXCEPT !.commands = Append(@, [name |-> name, path |-> dest]),
                                      !.dest = dest, !.existed = dest \in fs,
                                      !.k = IF last THEN 1 ELSE @ + 1,
                                      !.pc = IF last THEN "mcp" ELSE @]
    /\ UNCHANGED <<ledger, cfg, nOps, InstallFrame>>

\* the MCP step: .mcp.json, the conflicts, mcp.AddMCPServers (ok: the write
\* of the config file succeeded)
InsMCP(ok) ==
    /\ ins.pc = "mcp"
    /\ LET declared == ServersOf(Manifest(ins.id).servers)
           r == installMCPServers(cfg, ins.id, declared,
                                  In(IF ok THEN "none" ELSE "mcpwrite", "s1", FALSE,
                                     TRUE, TRUE))
       IN  /\ cfg' = r.cfg
           /\ ins' = [ins EXCEPT !.pc = "cache", !.servers = r.servers]
    /\ UNCHANGED <<ledger, fs, nOps, InstallFrame>>

\* the cache path of the install in progress
InsCachePath == Path("cache", ins.id[2], NameText(ins.id[1]), offered[ins.id])

\* the cache copy: EnsureDir and CopyDir, os.RemoveAll when the copy fails
InsCache(ok) ==
    /\ ins.pc = "cache"
    /\ IF ok
       THEN /\ fs' = fs \cup {InsCachePath}
            /\ ins' = [ins EXCEPT !.pc = "record"]
       ELSE InsReturn(fs \ {InsCachePath}, "CacheFailed")
    /\ UNCHANGED <<ledger, cfg, nOps, InstallFrame>>

\* the ledger record: plugin.GetInstalled().Add(pluginID, entry)
InsRecord(saveOk) ==
    /\ ins.pc = "record"
    /\ LET entry == [scope |-> ins.scope,
                     projectPath |-> IF ins.scope = "project" THEN cwd ELSE "",
                     version |-> offered[ins.id], cachePath |-> InsCachePath,
                     skills |-> ins.skills, commands |-> ins.commands,
                     mcpServers |-> ins.servers]
           added == Add(ledger, ins.id, entry, saveOk)
       IN  IF added.err
           THEN InsReturn(fs, "SaveFailed") /\ UNCHANGED ledger
           ELSE InsReturn(fs, "") /\ ledger' = added.file
    /\ UNCHANGED <<cfg, nOps, InstallFrame>>

NextInstall ==
    \/ \E id \in InstallIDs, scope \in {"global", "project"} : InsBegin(id, scope)
    \/ \E made, ok \in BOOLEAN : InsSource(made, ok)
    \/ InsCheck
    \/ \E sfx \in Suffixes, ok \in BOOLEAN : InsSkill(sfx, ok)
    \/ \E sfx \in Suffixes, ok \in BOOLEAN : InsCommand(sfx, ok)
    \/ \E ok \in BOOLEAN : InsMCP(ok)
    \/ \E ok \in BOOLEAN : InsCache(ok)
    \/ \E saveOk \in BOOLEAN : InsRecord(saveOk)

SpecInstall == InitInstall /\ [][NextInstall]_vars

-----------------------------------------------------------------------------
(* runPluginUpdate step by step.  upd.clones maps a marketplace to its     *)
(* clone: the version its manifest declares for the plugin ("" when none), *)
(* the HEAD commit that git rev-parse prints (head: its first 12           *)
(* characters, tail: the rest), and whether the manifest lists the plugin. *)

MaxUpdates == 1

Markets == {"acme", "beta"}

Commit(err, head, tail) == [err |-> err, head |-> head, tail |-> tail]

Clone(declared, commit, listed) ==
    [declared |-> declared, commit |-> commit, listed |-> listed]

CloneV1 == Clone("v1", Commit(FALSE, "aaaaaaaaaaaa", "1"), TRUE)
CloneV2 == Clone("v2", Commit(FALSE, "bbbbbbbbbbbb", "1"), TRUE)
CloneA1 == Clone("", Commit(FALSE, "aaaaaaaaaaaa", "1"), TRUE)
CloneGone == Clone("v2", Commit(FALSE, "bbbbbbbbbbbb", "1"), FALSE)

\* what a pull can bring: a declared version, commits with and without a new
\* 12-character prefix, a commit of 12 characters, a clone in which git
\* rev-parse fails, a manifest that no longer lists the plugin
Clones ==
    {CloneV1, CloneV2, CloneA1,
     Clone("", Commit(FALSE, "aaaaaaaaaaaa", "2"), TRUE),
     Clone("", Commit(FALSE, "bbbbbbbbbbbb", "1"), TRUE),
     Clone("", Commit(FALSE, "cccccccccccc", ""), TRUE),
     Clone("", Commit(TRUE, "", ""), TRUE),
     CloneGone}

\* what a pull of marketplace m is taken to bring
Brought(m) == IF m = "acme" THEN Clones ELSE {CloneV1, CloneV2, CloneGone}

\* the version of a plugin in a clone, as runPluginInstall and
\* checkPluginNeedsUpdate determine it
ResolveVersion(clone) ==
    IF clone.declared # "" THEN clone.declared
    ELSE IF ~clone.commit.err /\ clone.commit.tail # "" THEN clone.commit.head
    ELSE "latest"

\* checkPluginNeedsUpdate with its error returns
CheckPlugin(id, entry, clones) ==
    IF ~clones[id[2]].listed
    THEN [err |-> "PluginNotFound", needsUpdate |-> FALSE, newVersion |-> ""]
    ELSE [err |-> "",
          needsUpdate |-> checkPluginNeedsUpdate(entry, ResolveVersion(clones[id[2]])),
          newVersion |-> ResolveVersion(clones[id[2]])]

\* the records of the plugins ids, in the order of ids
RECURSIVE ItemsOf(_, _)
ItemsOf(plugins, ids) ==
    IF ids = <<>> THEN <<>>
    ELSE [k \in 1..Len(EntriesOf(plugins, Head(ids))) |->
             [id |-> Head(ids), entry |-> EntriesOf(plugins, Head(ids))[k]]]
         \o ItemsOf(plugins, Tail(ids))

\* the worlds an update starts from, each with the clones of that moment:
\* fmt@acme installed globally and in /p1 and fmt@beta installed globally,
\* all at v1; fmt@acme installed in
\* /p2 at v1 and, after the marketplace moved to v2, in /p1; fmt@acme
\* installed globally from a clone that declares no version
UpdateWorlds ==
    {[w |-> runPluginInstall(
                runPluginInstall(
                    runPluginInstall(FreshWorld([exists |-> FALSE, text |-> <<>>]),
                                     <<PFmt, "acme">>, "global", "/p1", "v1", NoFault).w,
                    <<PFmt, "acme">>, "project", "/p1", "v1", NoFault).w,
                <<PFmt, "beta">>, "global", "/p1", "v1", NoFault).w,
      clones |-> [m \in Markets |-> CloneV1]],
     [w |-> runPluginInstall(
                runPluginInstall(FreshWorld([exists |-> FALSE, text |-> <<>>]),
                                 <<PFmt, "acme">>, "project", "/p2", "v1", NoFault).w,
                <<PFmt, "acme">>, "project", "/p1", "v2", NoFault).w,
      clones |-> [m \in Markets |-> IF m = "acme" THEN CloneV2 ELSE CloneV1]],
     [w |-> runPluginInstall(FreshWorld([exists |-> FALSE, text |-> <<>>]),
                             <<PFmt, "acme">>, "global", "/p1",
                             ResolveVersion(CloneA1), NoFault).w,
      clones |-> [m \in Markets |-> IF m = "acme" THEN CloneA1 ELSE CloneV1]]}

InitUpdate ==
    /\ \E u \in UpdateWorlds :
          /\ ledger = u.w.ledger
          /\ cfg = u.w.cfg
          /\ fs = u.w.fs
          /\ upd = [NoUpd EXCEPT !.clones = u.clones]
    /\ conf = NoConf
    /\ auto = NoAuto
    /\ cwd = "/p1"
    /\ offered = [id \in OrchIDs |-> "v1"]
    /\ cmd = NoCmd
    /\ nOps = 0
    /\ probe = NoProbe
    /\ un = NoUn
    /\ ins = NoIns
    /\ spin = NoSpin
    /\ gen = NoGen
    /\ cfgInit = cfg
    /\ cfgPrev = cfg
    /\ call = NoCall
    /\ callPrev = NoCall
    /\ nCalls = 0
    /\ ledgerPrev = AbsentLedger
    /\ lcall = NoLCall
    /\ lret = NoLRet
    /\ ConcIdle

UpdateFrame ==
    <<cfgInit, cfgPrev, call, callPrev, nCalls, ledgerPrev, lcall, lret, concVars,
      cwd, offered, cmd, probe, un, ins, spin, gen, conf, auto>>

\* runPluginUpdate returns err
UpdReturn(u, err) == [u EXCEPT !.pc = "done", !.err = err]

\* variant: a failed pull ends the batch as it ends the update of one plugin
PullFailedReturns(u, batch) == UpdReturn(u, "PullFailed")

\* gitClient.Pull returned an error: updateAllMarketplaces prints it and
\* continues, updateMarketplace returns it
PullFailed(u, batch) == IF batch THEN u ELSE UpdReturn(u, "PullFailed")

\* after the loop of updateAllMarketplaces
AfterPulls(u) ==
    IF u.pc = "done" \/ u.toPull # {} THEN u
    ELSE [u EXCEPT !.pc = "check"]

\* after phase 1: nothing to update, or phase 3
AfterChecks(u) ==
    IF u.toCheck # <<>> THEN u
    ELSE IF u.toUpdate = <<>> THEN UpdReturn(u, "")
    ELSE [u EXCEPT !.pc = "apply"]

\* after one reinstall of phase 3
AfterApply(u) ==
    IF u.k < Len(u.toUpdate) THEN u ELSE UpdReturn(u, "")

\* codex-market plugin update [id] [--force], up to the first pull; order is
\* the order in which the plugin map is ranged over, regOk whether
\* registry.List succeeds
UpdBegin(args, force, order, regOk) ==
    LET l == Load(ledger)
        u == [upd EXCEPT !.args = args, !.force = force, !.before = l.doc.plugins,
                         !.pulled = {}, !.pullErrs = {}, !.checked = <<>>, !.warnings = <<>>,
                         !.toUpdate = <<>>, !.k = 0, !.attempted = <<>>,
                         !.updatedCount = 0, !.err = ""]
    IN  /\ upd.pc \in {"idle", "done"}
        /\ nOps < MaxUpdates
        /\ nOps' = nOps + 1
        /\ IF args = <<>>
           THEN /\ {order[i] : i \in 1..Len(order)} = DOMAIN l.doc.plugins
                /\ upd' = IF l.err THEN UpdReturn(u, "ParseError")
                          ELSE IF DOMAIN l.doc.plugins = {} THEN UpdReturn(u, "")
                          ELSE IF ~regOk THEN UpdReturn(u, "RegistryError")
                          ELSE [u EXCEPT !.pc = "pull", !.toPull = Markets,
                                         !.toCheck = ItemsOf(l.doc.plugins, order)]
           ELSE /\ order = args
                /\ regOk
                /\ upd' = IF l.err THEN UpdReturn(u, "ParseError")
                          ELSE IF Len(EntriesOf(l.doc.plugins, args[1])) = 0
                          THEN UpdReturn(u, "NotInstalled")
                          ELSE [u EXCEPT !.pc = "pull", !.toPull = {args[1][2]},
                                         !.toCheck = ItemsOf(l.doc.plugins, args)]
        /\ UNCHANGED <<ledger, cfg, fs, UpdateFrame>>

\* gitClient.Pull of the clone of marketplace m: it fails, or the clone
\* becomes brought
UpdPull(m, ok, brought) ==
    LET u == [upd EXCEPT !.pulled = @ \cup {m}, !.toPull = @ \ {m}]
    IN  /\ upd.pc = "pull"
        /\ m \in upd.toPull
        /\ upd' = AfterPulls(IF ok THEN [u EXCEPT !.clones[m] = brought]
                             ELSE PullFailed([u EXCEPT !.pullErrs = @ \cup {m}],
                                             upd.args = <<>>))
        /\ UNCHANGED <<ledger, cfg, fs, nOps, UpdateFrame>>

\* phase 1 of the batch: one record is checked
UpdCheck ==
    LET it == Head(upd.toCheck)
        c == CheckPlugin(it.id, it.entry, upd.clones)
        u == [upd EXCEPT !.toCheck = Tail(@), !.checked = Append(@, it)]
    IN  /\ upd.pc = "check"
        /\ upd.args = <<>>
        /\ upd.toCheck # <<>>
        /\ upd' = AfterChecks(
                    IF c.err # "" THEN [u EXCEPT !.warnings = Append(@, it)]
                    ELSE IF ~c.needsUpdate /\ ~upd.force THEN u
                    ELSE [u EXCEPT !.toUpdate = Append(@, it)])
        /\ UNCHANGED <<ledger, cfg, fs, nOps, UpdateFrame>>

\* the reinstall of item it in world w, recorded in u
Reinstalled(u, it, r) ==
    [u EXCEPT !.attempted = Append(@, [id |-> it.id, entry |-> it.entry, err |-> r.err]),
              !.updatedCount = IF r.err = "" THEN @ + 1 ELSE @]

\* phase 3 of the batch: one item is reinstalled
UpdApply(in) ==
    LET it == upd.toUpdate[upd.k + 1]
        r == reinstallPlugin(World, it.id, it.entry, cwd,
                             ResolveVersion(upd.clones[it.id[2]]), in)
    IN  /\ upd.pc = "apply"
        /\ upd' = AfterApply(Reinstalled([upd EXCEPT !.k = @ + 1], it, r))
        /\ ledger' = r.w.ledger
        /\ cfg' = r.w.cfg
        /\ fs' = r.w.fs
        /\ UNCHANGED <<nOps, UpdateFrame>>

\* the update of one plugin: one record is checked and, when needed,
\* reinstalled; the first error ends the command
UpdOne(in) ==
    LET it == Head(upd.toCheck)
        c == CheckPlugin(it.id, it.entry, upd.clones)
        u == [upd EXCEPT !.toCheck = Tail(@), !.checked = Append(@, it)]
        r == reinstallPlugin(World, it.id, it.entry, cwd,
                             ResolveVersion(upd.clones[it.id[2]]), in)
        skip == c.err # "" \/ (~c.needsUpdate /\ ~upd.force)
        v == IF c.err # "" THEN UpdReturn(u, c.err)
             ELSE IF skip THEN u
             ELSE IF r.err # ""
             THEN UpdReturn(Reinstalled([u EXCEPT !.toUpdate = Append(@, it)], it, r), r.err)
             ELSE Reinstalled([u EXCEPT !.toUpdate = Append(@, it)], it, r)
    IN  /\ upd.pc = "check"
        /\ upd.args # <<>>
        /\ upd.toCheck # <<>>
        /\ upd' = IF v.pc # "done" /\ v.toCheck = <<>> THEN UpdReturn(v, "") ELSE v
        /\ ledger' = IF skip THEN ledger ELSE r.w.ledger
        /\ cfg' = IF skip THEN cfg ELSE r.w.cfg
        /\ fs' = IF skip THEN fs ELSE r.w.fs
        /\ UNCHANGED <<nOps, UpdateFrame>>

NextUpdate ==
    \/ \E args \in {<<>>} \cup {<<id>> : id \in OrchIDs}, force \in BOOLEAN,
          order \in Orders(OrchIDs) \cup Orders({<<PFmt, "acme">>})
                    \cup {<<id>> : id \in OrchIDs},
          regOk \in BOOLEAN : UpdBegin(args, force, order, regOk)
    \/ \E m \in Markets, ok \in BOOLEAN :
          \E brought \in Brought(m) : UpdPull(m, ok, brought)
    \/ UpdCheck
    \/ \E in \in UpdateInputs : UpdApply(in)
    \/ \E in \in UpdateInputs : UpdOne(in)

SpecUpdate == InitUpdate /\ [][NextUpdate]_vars

-----------------------------------------------------------------------------
(* package autoupdate: CheckAll and ApplyUpdates, as `codex-market run`    *)
(* calls them.  auto.clones maps a marketplace to its clone, auto.origin   *)
(* to what its remote holds; git fetch reads the origin, git pull makes    *)
(* the clone equal to it.                                                  *)

MaxChecks == 2

\* what the remote of marketplace m can hold beside what the clone holds
Origins(m) ==
    IF m = "acme" THEN {CloneV2, Clone("", Commit(FALSE, "bbbbbbbbbbbb", "1"), TRUE)}
    ELSE {CloneV2}

InitAuto ==
    /\ \E u \in UpdateWorlds :
          /\ ledger = u.w.ledger
          /\ cfg = u.w.cfg
          /\ fs = u.w.fs
          /\ \E origin \in [Markets -> UNION {Origins(m) : m \in Markets} \cup Clones] :
                /\ \A m \in Markets : origin[m] \in Origins(m) \cup {u.clones[m]}
                /\ auto = [NoAuto EXCEPT !.clones = u.clones, !.origin = origin]
    /\ upd = NoUpd
    /\ conf = NoConf
    /\ cwd = "/p1"
    /\ offered = [id \in OrchIDs |-> "v1"]
    /\ cmd = NoCmd
    /\ nOps = 0
    /\ probe = NoProbe
    /\ un = NoUn
    /\ ins = NoIns
    /\ spin = NoSpin
    /\ gen = NoGen
    /\ cfgInit = cfg
    /\ cfgPrev = cfg
    /\ call = NoCall
    /\ callPrev = NoCall
    /\ nCalls = 0
    /\ ledgerPrev = AbsentLedger
    /\ lcall = NoLCall
    /\ lret = NoLRet
    /\ ConcIdle

AutoFrame ==
    <<cfgInit, cfgPrev, call, callPrev, nCalls, ledgerPrev, lcall, lret, concVars,
      cfg, fs, cwd, offered, cmd, probe, un, ins, spin, gen, upd, conf>>

\* Checker.CheckMarketplaces: one UpdateInfo per marketplace, in the order
\* of the range over the registry; a marketplace whose git commands fail
\* (failing) gives an error and no UpdateInfo
RECURSIVE CheckMarketplaces(_, _, _, _)
CheckMarketplaces(order, clones, origin, failing) ==
    IF order = <<>> THEN [updates |-> <<>>, errors |-> {}]
    ELSE LET m == Head(order)
             rest == CheckMarketplaces(Tail(order), clones, origin, failing)
         IN  IF clones[m].commit.err \/ m \in failing
             THEN [rest EXCEPT !.errors = @ \cup {m}]
             ELSE [rest EXCEPT !.updates =
                      <<[name |-> m,
                         hasUpdate |-> clones[m].commit # origin[m].commit]>> \o @]

\* Checker.CheckPlugins: one UpdateInfo for every record whose marketplace
\* has an update, in the order of the range over the ledger
CheckPlugins(items, updatedMarketplaces) ==
    LET hit == SelectSeq(items, LAMBDA it : it.id[2] \in updatedMarketplaces)
    IN  [k \in 1..Len(hit) |->
            [name |-> hit[k].id, currentVer |-> hit[k].entry.version,
             path |-> hit[k].entry.cachePath, hasUpdate |-> TRUE]]

\* CheckResult.TotalUpdates
TotalUpdates(marketplaces, plugins) ==
    Cardinality({i \in 1..Len(marketplaces) : marketplaces[i].hasUpdate})
        + Cardinality({i \in 1..Len(plugins) : plugins[i].hasUpdate})

\* the step of ApplyUpdates after the marketplace loop, and after the
\* plugin loop
AutoAfterMarkets(a) ==
    IF Len(a.plugins) > 0 THEN [a EXCEPT !.pc = "plugins", !.k = 1]
    ELSE [a EXCEPT !.pc = "done", !.k = 0]

\* CheckAll, and the decision of `run` to call ApplyUpdates
AutoCheck(mOrder, pOrder, failing, listOk) ==
    LET l == Load(ledger)
        mps == CheckMarketplaces(mOrder, auto.clones, auto.origin, failing)
        updated == {mps.updates[i].name :
                       i \in {j \in 1..Len(mps.updates) : mps.updates[j].hasUpdate}}
        ps == IF l.err \/ ~listOk THEN <<>>
              ELSE CheckPlugins(ItemsOf(l.doc.plugins, pOrder), updated)
        a == [auto EXCEPT !.marketplaces = mps.updates, !.plugins = ps,
                          !.errors = mps.errors, !.pulled = {}, !.updateErrors = {},
                          !.hasAny = TotalUpdates(mps.updates, ps) > 0]
    IN  /\ auto.pc \in {"idle", "done"}
        /\ nOps < MaxChecks
        /\ nOps' = nOps + 1
        /\ {mOrder[i] : i \in 1..Len(mOrder)} = Markets
        /\ {pOrder[i] : i \in 1..Len(pOrder)} = DOMAIN l.doc.plugins
        /\ auto' = IF a.hasAny THEN [a EXCEPT !.pc = "markets", !.k = 1]
                   ELSE [a EXCEPT !.pc = "done", !.k = 0]
        /\ UNCHANGED <<ledger, AutoFrame>>

\* one turn of the loop over result.Marketplaces: updateMarketplace, that
\* is gitClient.Pull (ok: it succeeded)
AutoMarket(ok) ==
    /\ auto.pc = "markets"
    /\ LET mp == auto.marketplaces[auto.k]
           a == IF ~mp.hasUpdate THEN auto
                ELSE IF ok
                THEN [auto EXCEPT !.clones[mp.name] = auto.origin[mp.name],
                                  !.pulled = @ \cup {mp.name}]
                ELSE [auto EXCEPT !.updateErrors = @ \cup {mp.name}]
       IN  auto' = IF auto.k < Len(auto.marketplaces) THEN [a EXCEPT !.k = @ + 1]
                   ELSE AutoAfterMarkets(a)
    /\ UNCHANGED <<ledger, nOps, AutoFrame>>

\* Updater.updatePlugin: it returns nil
updatePlugin(f, info) == [file |-> f, err |-> FALSE]

\* one turn of the loop over result.Plugins
AutoPlugin ==
    /\ auto.pc = "plugins"
    /\ LET p == auto.plugins[auto.k]
           r == IF p.hasUpdate THEN updatePlugin(ledger, p)
                ELSE [file |-> ledger, err |-> FALSE]
       IN  /\ ledger' = r.file
           /\ auto' = [auto EXCEPT
                         !.updateErrors = IF r.err THEN @ \cup {p.name} ELSE @,
                         !.k = IF auto.k < Len(auto.plugins) THEN @ + 1 ELSE 0,
                         !.pc = IF auto.k < Len(auto.plugins) THEN @ ELSE "done"]
    /\ UNCHANGED <<nOps, AutoFrame>>

NextAuto ==
    \/ \E mOrder \in Orders(Markets), pOrder \in Orders(OrchIDs) \cup Orders({<<PFmt, "acme">>}),
          failing \in SUBSET {"beta"}, listOk \in BOOLEAN :
          AutoCheck(mOrder, pOrder, failing, listOk)
    \/ \E ok \in BOOLEAN : AutoMarket(ok)
    \/ AutoPlugin

SpecAuto == InitAuto /\ [][NextAuto]_vars

-----------------------------------------------------------------------------
(* package config: Load, Save, Get and Reload called by goroutines of one  *)
(* process.  cfgMu is a sync.RWMutex: conf.w is the writer that has        *)
(* announced itself in Lock (it holds the mutex when conf.held), and       *)
(* conf.readers counts the read locks held.  RLock waits while a writer    *)
(* has announced itself or holds the mutex; Lock waits for the other       *)
(* writers and then for the readers to leave.                              *)

MaxConfCalls == 2

ConfigOps == {"Load", "Save", "Get", "Reload"}

InitConfig ==
    /\ CodecIdle
    /\ LedgerIdle
    /\ ConcIdle
    /\ OrchIdle

ConfFrame ==
    <<codecVars, ledgerVars, concVars,
      fs, cwd, offered, cmd, nOps, probe, un, ins, spin, gen, upd, auto>>

\* goroutine t calls op
ConfCall(t, op) ==
    /\ conf.pc[t] = "idle"
    /\ conf.calls < MaxConfCalls
    /\ conf' = [conf EXCEPT !.calls = @ + 1, !.op[t] = op, !.loaded[t] = "",
                            !.pc[t] = IF op = "Load" THEN "rlock"
                                      ELSE IF op = "Get" THEN "once"
                                      ELSE "lock"]
    /\ UNCHANGED ConfFrame

\* cfgMu.RLock() of goroutine t can return
RLockReady(t) == conf.w = ""

\* Load: cfgMu.RLock()
ConfRLock(t) ==
    /\ conf.pc[t] = "rlock"
    /\ RLockReady(t)
    /\ conf' = [conf EXCEPT !.readers = @ + 1, !.pc[t] = "read"]
    /\ UNCHANGED ConfFrame

\* Load: os.ReadFile and json.Unmarshal
ConfRead(t) ==
    /\ conf.pc[t] = "read"
    /\ conf' = [conf EXCEPT !.loaded[t] = conf.file, !.pc[t] = "runlock"]
    /\ UNCHANGED ConfFrame

\* Load: the deferred cfgMu.RUnlock(), and the return to the caller
ConfRUnlock(t) ==
    /\ conf.pc[t] = "runlock"
    /\ conf' = [conf EXCEPT !.readers = @ - 1,
                            !.pc[t] = IF conf.op[t] = "Load" THEN "idle" ELSE "store"]
    /\ UNCHANGED ConfFrame

\* Get: cfgOnce.Do; the first caller runs Load, a caller that comes while
\* it runs waits, a later caller returns the singleton
ConfOnce(t) ==
    /\ conf.pc[t] = "once"
    /\ conf.once # "running"
    /\ conf' = IF conf.once = "new"
               THEN [conf EXCEPT !.once = "running", !.pc[t] = "rlock"]
               ELSE [conf EXCEPT !.pc[t] = "idle"]
    /\ UNCHANGED ConfFrame

\* Get and Reload: cfg = the configuration that Load returned
ConfStore(t) ==
    /\ conf.pc[t] = "store"
    /\ conf' = IF conf.op[t] = "Get"
               THEN [conf EXCEPT !.cfg = conf.loaded[t], !.once = "done", !.pc[t] = "idle"]
               ELSE [conf EXCEPT !.cfg = conf.loaded[t], !.pc[t] = "unlock"]
    /\ UNCHANGED ConfFrame

\* Save and Reload: cfgMu.Lock(), the writer announces itself
ConfLock(t) ==
    /\ conf.pc[t] = "lock"
    /\ conf.w = ""
    /\ conf' = [conf EXCEPT !.w = t, !.pc[t] = "wait"]
    /\ UNCHANGED ConfFrame

\* cfgMu.Lock() returns when the readers have left; Save goes on to write
\* the file, Reload to call Load
ConfLocked(t) ==
    /\ conf.pc[t] = "wait"
    /\ conf.readers = 0
    /\ conf' = [conf EXCEPT !.held = TRUE,
                            !.pc[t] = IF conf.op[t] = "Save" THEN "write" ELSE "rlock"]
    /\ UNCHANGED ConfFrame

\* Save: os.WriteFile of the configuration content
ConfWrite(t, content) ==
    /\ conf.pc[t] = "write"
    /\ conf' = [conf EXCEPT !.file = content, !.pc[t] = "unlock"]
    /\ UNCHANGED ConfFrame

\* Save and Reload: the deferred cfgMu.Unlock(), and the return
ConfUnlock(t) ==
    /\ conf.pc[t] = "unlock"
    /\ conf' = [conf EXCEPT !.w = "", !.held = FALSE, !.pc[t] = "idle"]
    /\ UNCHANGED ConfFrame

\* the steps of goroutine t inside a call
ConfStep(t) ==
    \/ ConfRLock(t)
    \/ ConfRead(t)
    \/ ConfRUnlock(t)
    \/ ConfOnce(t)
    \/ ConfStore(t)
    \/ ConfLock(t)
    \/ ConfLocked(t)
    \/ \E content \in {"f0", "f1"} : ConfWrite(t, content)
    \/ ConfUnlock(t)

NextConfig ==
    \/ \E t \in Threads, op \in ConfigOps : ConfCall(t, op)
    \/ \E t \in Threads : ConfStep(t)

\* the scheduler runs every goroutine that can take a step
SpecConfig ==
    /\ InitConfig
    /\ [][NextConfig]_vars
    /\ \A t \in Threads : WF_vars(ConfStep(t))

-----------------------------------------------------------------------------
(* The spinner of package autoupdate and its caller, the update loop of    *)
(* runPluginUpdate: for every item NewSpinner, Start, reinstallPlugin,     *)
(* Stop.  spin.sp[k] is the k-th Spinner: its channels stop and done, its  *)
(* mutex mu, and its goroutine (g: where it is, i: its frame counter).     *)

MaxSpinners == 2

MaxFrames == 2

\* NewSpinner followed by the go statement of Start
NewSpinner ==
    [stop |-> "open", done |-> "open", mu |-> "free", g |-> "select", i |-> 0]

InitSpin ==
    /\ CodecIdle
    /\ LedgerIdle
    /\ ConcIdle
    /\ OrchIdle

SpinFrame ==
    <<codecVars, ledgerVars, concVars, fs, cwd, offered, cmd, nOps, probe, un, ins, gen, upd, conf, auto>>

\* the Spinner the caller holds
Cur == Len(spin.sp)

\* spinner := NewSpinner(...); spinner.Start()
SpinStart ==
    /\ spin.main = "idle"
    /\ Len(spin.sp) < MaxSpinners
    /\ spin' = [spin EXCEPT !.sp = Append(@, NewSpinner), !.main = "work"]
    /\ UNCHANGED SpinFrame

\* err := reinstallPlugin(...) returns and Stop is called
SpinWork ==
    /\ spin.main = "work"
    /\ spin' = [spin EXCEPT !.main = "close"]
    /\ UNCHANGED SpinFrame

\* Stop: close(s.stop)
StopClose ==
    /\ spin.main = "close"
    /\ spin' = [spin EXCEPT !.sp[Cur].stop = "closed", !.main = "join"]
    /\ UNCHANGED SpinFrame

\* variant: Stop does not wait for the goroutine
DoneReceivedAtOnce(s) == TRUE

\* the receive <-s.done returns: the channel was closed
DoneReceived(s) == s.done = "closed"

\* Stop: <-s.done
StopJoin ==
    /\ spin.main = "join"
    /\ DoneReceived(spin.sp[Cur])
    /\ spin' = [spin EXCEPT !.main = "lock"]
    /\ UNCHANGED SpinFrame

\* Stop: s.mu.Lock()
StopLock ==
    /\ spin.main = "lock"
    /\ spin.sp[Cur].mu = "free"
    /\ spin' = [spin EXCEPT !.sp[Cur].mu = "main", !.main = "print"]
    /\ UNCHANGED SpinFrame

\* Stop: the final status line
StopPrint ==
    /\ spin.main = "print"
    /\ spin' = [spin EXCEPT !.out = Append(@, [s |-> Cur, line |-> "final"]),
                            !.main = "unlock"]
    /\ UNCHANGED SpinFrame

\* Stop: the deferred s.mu.Unlock(), and the return to the caller
StopUnlock ==
    /\ spin.main = "unlock"
    /\ spin' = [spin EXCEPT !.sp[Cur].mu = "free", !.main = "idle"]
    /\ UNCHANGED SpinFrame

\* the goroutine of spinner k: the select statement
GSelect(k) ==
    /\ spin.sp[k].g = "select"
    /\ IF spin.sp[k].stop = "closed"
       THEN spin' = [spin EXCEPT !.sp[k].g = "return"]
       ELSE /\ spin.sp[k].i < MaxFrames
            /\ spin' = [spin EXCEPT !.sp[k].g = "lock"]
    /\ UNCHANGED SpinFrame

\* s.mu.Lock()
GLock(k) ==
    /\ spin.sp[k].g = "lock"
    /\ spin.sp[k].mu = "free"
    /\ spin' = [spin EXCEPT !.sp[k].mu = "g", !.sp[k].g = "print"]
    /\ UNCHANGED SpinFrame

\* fmt.Printf of the frame
GPrint(k) ==
    /\ spin.sp[k].g = "print"
    /\ spin' = [spin EXCEPT !.out = Append(@, [s |-> k, line |-> "frame"]),
                            !.sp[k].g = "unlock"]
    /\ UNCHANGED SpinFrame

\* s.mu.Unlock(); i++
GUnlock(k) ==
    /\ spin.sp[k].g = "unlock"
    /\ spin' = [spin EXCEPT !.sp[k].mu = "free", !.sp[k].i = @ + 1,
                            !.sp[k].g = "sleep"]
    /\ UNCHANGED SpinFrame

\* time.Sleep(80 * time.Millisecond) returns
GSleep(k) ==
    /\ spin.sp[k].g = "sleep"
    /\ spin' = [spin EXCEPT !.sp[k].g = "select"]
    /\ UNCHANGED SpinFrame

\* return: the deferred close(s.done), and the goroutine ends
GReturn(k) ==
    /\ spin.sp[k].g = "return"
    /\ spin' = [spin EXCEPT !.sp[k].done = "closed", !.sp[k].g = "dead"]
    /\ UNCHANGED SpinFrame

\* the steps of the caller, and those of the goroutines
MainStep ==
    \/ SpinStart
    \/ SpinWork
    \/ StopClose
    \/ StopJoin
    \/ StopLock
    \/ StopPrint
    \/ StopUnlock

GStep(k) ==
    \/ GSelect(k)
    \/ GLock(k)
    \/ GPrint(k)
    \/ GUnlock(k)
    \/ GSleep(k)
    \/ GReturn(k)

NextSpin ==
    \/ MainStep
    \/ \E k \in 1..Len(spin.sp) : GStep(k)

\* the scheduler runs every goroutine that can take a step
SpecSpin ==
    /\ InitSpin
    /\ [][NextSpin]_vars
    /\ WF_vars(MainStep)
    /\ \A k \in 1..MaxSpinners : WF_vars(k <= Len(spin.sp) /\ GStep(k))

-----------------------------------------------------------------------------
(* Reading a config text as lines, markers and managed blocks *)

\* the lines of t, each without its newline, in file order
Lines(t) ==
    LET ss == LineStartSet(t)
        kth(k) == CHOOSE x \in ss : Cardinality({y \in ss : y < x}) = k - 1
        endOf(x) == IF NextNL(t, x) = 0 THEN Len(t) ELSE NextNL(t, x) - 1
    IN  [k \in 1..Cardinality(ss) |-> SubSeq(t, kth(k), endOf(kth(k)))]

IsStartLine(l) == Len(l) >= 1 /\ l[1] = MarkerStartPrefix

IsEndLine(l) == Len(l) >= 1 /\ l[1] = MarkerEndPrefix

IsMarkerLine(l) == IsStartLine(l) \/ IsEndLine(l)

\* the plugin name carried by a marker line
MarkerName(l) ==
    LET stop == {j \in 2..Len(l) : l[j] = "MK"}
    IN  IF stop = {} THEN SubSeq(l, 2, Len(l))
        ELSE SubSeq(l, 2, (CHOOSE j \in stop : \A k \in stop : j <= k) - 1)

\* lines a..b of L are a managed block: a start marker line, its end marker
\* line (same plugin name, nothing after the name), no marker line between
IsBlock(L, a, b) ==
    /\ a < b
    /\ IsStartLine(L[a])
    /\ L[b] = <<MarkerEndPrefix>> \o MarkerName(L[a])
    /\ \A j \in (a + 1)..(b - 1) : ~IsMarkerLine(L[j])

InBlock(L, k) ==
    \E a \in 1..k : \E b \in k..Len(L) : IsBlock(L, a, b)

\* the non-blank lines of t that lie outside all managed blocks, in order
OutsideLines(t) ==
    LET L == Lines(t)
        ks == {k \in 1..Len(L) : L[k] # <<>> /\ ~InBlock(L, k)}
        kth(n) == CHOOSE x \in ks : Cardinality({y \in ks : y < x}) = n - 1
    IN  [n \in 1..Cardinality(ks) |-> L[kth(n)]]

\* A occurs in B as a subsequence (same elements, same relative order)
RECURSIVE SubseqFrom(_, _, _, _)
SubseqFrom(A, i, B, j) ==
    IF i > Len(A) THEN TRUE
    ELSE LET hits == {k \in j..Len(B) : B[k] = A[i]}
         IN  IF hits = {} THEN FALSE
             ELSE SubseqFrom(A, i + 1, B,
                             (CHOOSE k \in hits : \A h \in hits : k <= h) + 1)

IsSubseq(A, B) == SubseqFrom(A, 1, B, 1)

\* the lines of the managed block of plugin q in t (<<>> when it has none)
BlockOf(t, q) ==
    LET L == Lines(t)
        ab == {x \in (1..Len(L)) \X (1..Len(L)) :
                 IsBlock(L, x[1], x[2]) /\ MarkerName(L[x[1]]) = q}
    IN  IF ab = {} THEN <<>>
        ELSE LET x == CHOOSE y \in ab : \A z \in ab : y[1] <= z[1]
             IN  SubSeq(L, x[1], x[2])

HasMarkers(t) == \E i \in 1..Len(t) : t[i] \in {MarkerStartPrefix, MarkerEndPrefix}

\* t holds a start marker line of plugin q that opens no managed block
HasStrayStart(t, q) ==
    LET L == Lines(t)
    IN  \E a \in 1..Len(L) :
            /\ IsStartLine(L[a]) /\ MarkerName(L[a]) = q
            /\ ~\E b \in a..Len(L) : IsBlock(L, a, b)

\* every marker of t is a whole line, and the marker lines of t come in
\* pairs start(q), end(q), with at most one pair for every plugin q
WellFormedBlocks(t) ==
    LET L == Lines(t)
        ms == {k \in 1..Len(L) : IsMarkerLine(L[k])}
    IN  /\ \A i \in 1..Len(t) :
             t[i] \in {MarkerStartPrefix, MarkerEndPrefix} => i \in LineStartSet(t)
        /\ \A k \in ms :
             IF IsStartLine(L[k])
             THEN \E b \in ms : IsBlock(L, k, b)
             ELSE \E a \in ms : IsBlock(L, a, k)
        /\ \A a, b \in ms :
             IsStartLine(L[a]) /\ IsStartLine(L[b]) /\ a # b
                => MarkerName(L[a]) # MarkerName(L[b])

\* line l is the header of the server section of name, quoted or not
IsHeaderOf(l, name) == l = <<"HQ", name, "QH">> \/ l = <<"HU", name, "]">>

\* the numbers of the lines of L that declare the server name
DeclaringLines(L, name) == {k \in 1..Len(L) : IsHeaderOf(L[k], name)}

\* line k of L lies inside the managed block of plugin q
InBlockOf(L, k, q) ==
    \E a \in 1..k : \E b \in k..Len(L) : IsBlock(L, a, b) /\ MarkerName(L[a]) = q

\* name is declared inside the managed block of a plugin other than q
DeclaredForeign(t, name, q) ==
    \E k \in DeclaringLines(Lines(t), name) :
        InBlock(Lines(t), k) /\ ~InBlockOf(Lines(t), k, q)

\* name is declared by a section outside all managed blocks
DeclaredUnmanaged(t, name) ==
    \E k \in DeclaringLines(Lines(t), name) : ~InBlock(Lines(t), k)

\* name is declared, and only inside the managed block of plugin q
DeclaredOnlyOwn(t, name, q) ==
    /\ DeclaringLines(Lines(t), name) # {}
    /\ \A k \in DeclaringLines(Lines(t), name) : InBlockOf(Lines(t), k, q)

-----------------------------------------------------------------------------
(* Properties of the commands *)

\* C1: after any sequence of install, uninstall and update commands the
\* ledger holds at most one record for every (pluginID, scope, projectPath).
LedgerKeysUnique ==
    \A id \in DOMAIN ledger.plugins :
        \A i, j \in 1..Len(ledger.plugins[id]) :
            (/\ ledger.plugins[id][i].scope = ledger.plugins[id][j].scope
             /\ ledger.plugins[id][i].projectPath = ledger.plugins[id][j].projectPath)
                => i = j

\* a second command has put a second or third record under one pluginID
LedgerKeysUniqueWitness ==
    /\ nOps = MaxOps
    /\ cmd.err = ""
    /\ cmd.name \in {"install", "update"}
    /\ \E id \in DOMAIN ledger.plugins : Len(ledger.plugins[id]) >= 2

-----------------------------------------------------------------------------
(* Properties of the codec *)

\* C6: AddMCPServers is idempotent: a second call with the same (plugin,
\* marketplace, servers) right after the first leaves the file as it was.
AddIdempotent ==
    (call.op = "add" /\ callPrev = call) => cfg = cfgPrev

\* C7: removing the block of plugin P leaves the managed block of every
\* other plugin Q (also one whose name P is a prefix of) exactly as it was.
RemoveKeepsOtherBlocks ==
    call.op = "remove" =>
        \A q \in PluginNames \ {call.plugin} :
            BlockOf(cfgPrev.text, q) # <<>>
                => BlockOf(cfg.text, q) = BlockOf(cfgPrev.text, q)

\* C8: when the file holds a start marker of P that has no matching end
\* marker, a call for P deletes no line outside a well-formed block, and
\* removing leaves a file without any end marker of P unchanged.
StrayStartKeepsText ==
    (call.op # "none" /\ HasStrayStart(cfgPrev.text, call.plugin)) =>
        IsSubseq(OutsideLines(cfgPrev.text), Lines(cfg.text))

\* C9: started from a file without markers, the file always holds, for each
\* plugin, at most one start and one end marker, each start marker is
\* followed by its own end marker with no other marker between, and there
\* is no end marker without its start.
BlocksWellFormed ==
    ~HasMarkers(cfgInit.text) => WellFormedBlocks(cfg.text)

BlocksWellFormedWitness ==
    /\ ~HasMarkers(cfgInit.text)
    /\ call.op = "remove" /\ callPrev.op = "add"
    /\ Cardinality({k \in 1..Len(Lines(cfg.text)) : IsStartLine(Lines(cfg.text)[k])}) = 2
    /\ Len(cfg.text) < Len(cfgPrev.text)

\* C10: every non-blank line that lies outside all managed blocks before a
\* call of AddMCPServers or RemoveMCPServers is still there afterwards,
\* unmodified and in the same relative order.
UserLinesKept ==
    call.op # "none" => IsSubseq(OutsideLines(cfgPrev.text), Lines(cfg.text))

-----------------------------------------------------------------------------
(* Properties of the ledger *)

\* C2: Add replaces the record with the same scope and project path at its
\* list position, or else appends; every other record of pluginID and the
\* records of every other pluginID stay as they were.
AddReplacesOrAppends ==
    (lcall.op = "Add" /\ ~lret.err) =>
        LET old == EntriesOf(ledgerPrev.plugins, lcall.pluginID)
            new == EntriesOf(ledger.plugins, lcall.pluginID)
            hits == {i \in 1..Len(old) :
                        old[i].scope = lcall.entry.scope
                        /\ old[i].projectPath = lcall.entry.projectPath}
        IN  /\ lcall.pluginID \in DOMAIN ledger.plugins
            /\ hits # {} =>
                 /\ Len(new) = Len(old)
                 /\ \E i \in hits :
                      new[i] = lcall.entry /\ \A j \in 1..Len(old) : j # i => new[j] = old[j]
            /\ hits = {} => new = Append(old, lcall.entry)
            /\ \A k \in LedgerIDs \ {lcall.pluginID} :
                 /\ k \in DOMAIN ledger.plugins <=> k \in DOMAIN ledgerPrev.plugins
                 /\ EntriesOf(ledger.plugins, k) = EntriesOf(ledgerPrev.plugins, k)

AddReplacesWitness ==
    /\ lcall.op = "Add" /\ ~lret.err
    /\ Len(EntriesOf(ledgerPrev.plugins, lcall.pluginID)) = 3
    /\ Len(EntriesOf(ledger.plugins, lcall.pluginID)) = 3
    /\ ledger # ledgerPrev
    /\ \E k \in LedgerIDs \ {lcall.pluginID} : k \in DOMAIN ledger.plugins

\* the records the claim says RemoveByScope(scope, projectPath) removes
ClaimedRemoved(e, scope, projectPath) ==
    \/ scope = "all"
    \/ scope = "global" /\ e.scope = "global"
    \/ scope = "project" /\ e.scope = "project" /\ e.projectPath = projectPath

\* C3: RemoveByScope removes every record (all), the global record (global)
\* or the project record of the given path (project); the returned list and
\* the records left partition the old records of pluginID, in order, and
\* the records of other plugins are untouched.
RemoveByScopePartitions ==
    (lcall.op = "RemoveByScope" /\ ~lret.err) =>
        LET old == EntriesOf(ledgerPrev.plugins, lcall.pluginID)
            new == EntriesOf(ledger.plugins, lcall.pluginID)
        IN  /\ lret.removed =
                 SelectSeq(old, LAMBDA e : ClaimedRemoved(e, lcall.scope, lcall.projectPath))
            /\ new =
                 SelectSeq(old, LAMBDA e : ~ClaimedRemoved(e, lcall.scope, lcall.projectPath))
            /\ \A k \in LedgerIDs \ {lcall.pluginID} :
                 /\ k \in DOMAIN ledger.plugins <=> k \in DOMAIN ledgerPrev.plugins
                 /\ EntriesOf(ledger.plugins, k) = EntriesOf(ledgerPrev.plugins, k)

RemoveByScopeWitness ==
    /\ lcall.op = "RemoveByScope" /\ ~lret.err /\ lcall.scope = "project"
    /\ Len(EntriesOf(ledgerPrev.plugins, lcall.pluginID)) = 3
    /\ Len(lret.removed) = 1
    /\ Len(EntriesOf(ledger.plugins, lcall.pluginID)) = 2

\* C4: Load of an absent file returns the empty version-1 ledger and no
\* error; on a malformed file Load, Add, Remove and RemoveByScope return an
\* error and leave the file as it is.
LoadFailsOnMalformed ==
    /\ (lcall.op = "Load" /\ ledgerPrev.state = "absent") =>
          ~lret.err /\ lret.doc = [version |-> 1, plugins |-> <<>>]
    /\ (lcall.op # "none" /\ ledgerPrev.state = "malformed") =>
          lret.err /\ ledger = ledgerPrev

LoadFailsWitness ==
    lcall.op = "Add" /\ ledgerPrev.state = "malformed" /\ lret.err

\* C5: when two goroutines have each run one mutation, the saved ledger is
\* what running the two mutations one after the other gives, in one of the
\* two orders.
MutationsSerializable ==
    (\A p \in Procs : pc[p] = "done") =>
        \/ ledger = RunJob(job[2], RunJob(job[1], ledger0))
        \/ ledger = RunJob(job[1], RunJob(job[2], ledger0))

-----------------------------------------------------------------------------
(* Properties of the conflict detection *)

\* C11: a proposed server name that is declared inside the managed block of
\* a plugin other than the one being installed is reported as a conflict.
ForeignDeclarationReported ==
    probe # NoProbe =>
        \A name \in probe.servers :
            DeclaredForeign(ReadConfig(cfg), name, probe.plugin)
                => name \in probe.conflicts

\* C12: every proposed server name that is declared by a section outside all
\* managed blocks is reported as a conflict, whether its header is quoted or
\* not and wherever the section lies in the file.
UnmanagedDeclarationReported ==
    probe # NoProbe =>
        \A name \in probe.servers :
            DeclaredUnmanaged(ReadConfig(cfg), name) => name \in probe.conflicts

\* C13: a proposed server name that is declared only inside the managed block
\* of the plugin being installed is never reported as a conflict.
OwnBlockNotReported ==
    probe # NoProbe =>
        \A name \in probe.servers :
            DeclaredOnlyOwn(ReadConfig(cfg), name, probe.plugin)
                => name \notin probe.conflicts

-----------------------------------------------------------------------------
(* Properties of install, update and uninstall *)

\* the names of the servers a ledger record lists
ServerNames(entry) == {entry.mcpServers[k].name : k \in 1..Len(entry.mcpServers)}

\* the names declared inside the managed block of plugin q in text t
BlockNames(t, q) ==
    {n \in GetExistingMCPServerNames([exists |-> TRUE, text |-> t]) :
        \E k \in DeclaringLines(Lines(t), n) : InBlockOf(Lines(t), k, q)}

\* the records of the ledger file for the key (id, scope, projectPath)
RecordsOf(file, id, scope, projectPath) ==
    SelectSeq(EntriesOf(file.plugins, id),
              LAMBDA e : e.scope = scope /\ e.projectPath = projectPath)

\* C14: an install that succeeds for a plugin one of whose declared server
\* names is declared by an unmanaged section drops exactly the conflicting
\* names: the others are written to the plugin's block, the record lists
\* the others only, and the unmanaged lines of the config file stay.
PartialAcceptance ==
    [][(/\ cmd'.name = "install" /\ nOps' = nOps + 1
        /\ cmd'.err = "" /\ cmd'.warned = ""
        /\ \E n \in DOMAIN ServersOf(Manifest(cmd'.id).servers) :
              DeclaredUnmanaged(ReadConfig(cfg), n))
       => LET declared == DOMAIN ServersOf(Manifest(cmd'.id).servers)
              conflicting == {n \in declared : DeclaredUnmanaged(ReadConfig(cfg), n)}
              recs == RecordsOf(ledger', cmd'.id, cmd'.scope,
                                IF cmd'.scope = "project" THEN cwd ELSE "")
          IN  /\ Len(recs) = 1
              /\ ServerNames(recs[1]) = declared \ conflicting
              /\ declared \ conflicting # {}
                    => BlockNames(ReadConfig(cfg'), cmd'.id[1]) = declared \ conflicting
              /\ IsSubseq(OutsideLines(ReadConfig(cfg)), OutsideLines(ReadConfig(cfg')))
      ]_vars

FailedStepAbortsInstall ==
    (cmd.name = "install" /\ cmd.warned # "") => cmd.err # ""

\* C17: an install for a (pluginID, scope, projectPath) that has a record in
\* the ledger returns AlreadyInstalled and leaves the ledger, the config file
\* and the skills, prompts and cache directories as they were.
RepeatedInstallRefused ==
    [][(/\ cmd'.name = "install" /\ nOps' = nOps + 1
        /\ ledger.state = "ok"
        /\ Len(RecordsOf(ledger, cmd'.id, cmd'.scope,
                         IF cmd'.scope = "project" THEN cwd ELSE "")) > 0)
          => /\ cmd'.err = "AlreadyInstalled"
             /\ ledger' = ledger /\ cfg' = cfg /\ fs' = fs]_vars

\* C18: reinstallPlugin, run for a record of the ledger from whatever working
\* directory, uninstalls and reinstalls the plugin and ends with a record
\* that carries the scope and the projectPath of the record it was run for.
ReinstallKeepsScope ==
    ledger.state = "ok" =>
        \A id \in DOMAIN ledger.plugins :
            \A i \in 1..Len(ledger.plugins[id]) :
                /\ reinstallPlugin(World, id, ledger.plugins[id][i], cwd,
                                   offered[id], NoFault).err = ""
                /\ Len(RecordsOf(reinstallPlugin(World, id, ledger.plugins[id][i], cwd,
                                                 offered[id], NoFault).w.ledger,
                                 id, ledger.plugins[id][i].scope,
                                 ledger.plugins[id][i].projectPath)) = 1

\* C24: every record of the ledger has the scope "global" or "project",
\* and a projectPath exactly when its scope is "project", whatever was
\* passed as the scope flag of the installs.
RecordScopesValid ==
    ledger.state = "ok" =>
        \A id \in DOMAIN ledger.plugins :
            \A i \in 1..Len(ledger.plugins[id]) :
                /\ ledger.plugins[id][i].scope \in {"global", "project"}
                /\ ledger.plugins[id][i].projectPath # ""
                      <=> ledger.plugins[id][i].scope = "project"

\* l is a start marker line written for plugin id (name and marketplace)
IsStartLineOf(l, id) ==
    /\ IsStartLine(l)
    /\ MarkerName(l) = id[1]
    /\ l = <<MarkerStartPrefix>> \o id[1] \o <<"MK", id[2]>>

\* t holds a start marker line of plugin id, or an end marker line with
\* its name that does not close the block of a plugin of the same name
\* from another marketplace
HasMarkerOf(t, id) ==
    LET L == Lines(t)
    IN  \E k \in 1..Len(L) :
            \/ IsStartLineOf(L[k], id)
            \/ /\ IsEndLine(L[k]) /\ MarkerName(L[k]) = id[1]
               /\ ~\E a \in 1..k : IsBlock(L, a, k) /\ ~IsStartLineOf(L[a], id)

\* C25: when a plugin that was installed in no scope is installed and then
\* uninstalled with the same scope (and no removal fails), the ledger is
\* what it was before the install, the plugin's key being absent, and the
\* config file holds neither a start nor an end marker of the plugin.
InstallUninstallRoundTrip ==
    [][(/\ cmd.name = "install" /\ cmd.err = ""
        /\ cmd.scope \in {"global", "project"}
        /\ Len(EntriesOf(ledger.plugins, cmd.id)) = 1
        /\ cmd'.name = "uninstall" /\ nOps' = nOps + 1
        /\ cmd'.id = cmd.id /\ cmd'.scope = cmd.scope
        /\ cmd'.warned = "" /\ cmd'.err # "SaveFailed")
          => /\ cmd'.err = ""
             /\ ledger'.state = "ok"
             /\ DOMAIN ledger'.plugins = DOMAIN ledger.plugins \ {cmd.id}
             /\ \A k \in DOMAIN ledger'.plugins : ledger'.plugins[k] = ledger.plugins[k]
             /\ ~HasMarkerOf(ReadConfig(cfg'), cmd.id)]_vars

-----------------------------------------------------------------------------
(* Properties of the steps of runPluginUninstall *)

\* the artifacts of the records entries of plugin id
ArtifactsOf(entries, id) ==
    RemovedPaths(entries)
    \cup (IF \E i \in 1..Len(entries) : Len(entries[i].mcpServers) > 0
          THEN {MCPBlock(id)} ELSE {})

\* one of the records entries of plugin id is no longer in the ledger file
RecordGone(file, id, entries) ==
    \E i \in 1..Len(entries) :
        Len(RecordsOf(file, id, entries[i].scope, entries[i].projectPath)) = 0

\* C19: in an uninstall, a matched record is removed from the ledger only
\* after the removal of every artifact of the matched records (skills,
\* commands, MCP block, cache copy) has been attempted.
RecordRemovedLast ==
    (un.pc # "idle" /\ un.err = "" /\ RecordGone(ledger, un.id, un.entries))
        => ArtifactsOf(un.entries, un.id) \subseteq un.attempted

-----------------------------------------------------------------------------
(* Properties of the steps of runPluginInstall *)

\* C21: in any sequence of installs, every skill and every command is
\* copied to a destination path that did not exist before the copy: an
\* item never lands on the path of an item installed earlier.
ItemsWrittenFresh ==
    ins.dest # NoPath => ~ins.existed

TempCloneRemoved ==
    (ins.pc = "done" /\ Manifest(ins.id).remote) => TempCloneDir \notin fs

\* an install from a clone returned after the clone was made: with success,
\* or with the failure of the cache copy
TempCloneRemovedWitness ==
    /\ ins.pc = "done"
    /\ ins.src = TempCloneDir
    /\ ins.err \in {"", "CacheFailed"}

-----------------------------------------------------------------------------
(* Properties of the generated block *)

\* the names listed between the line `env_vars = [` and its closing line
ForwardedNames(t) ==
    LET L == Lines(t)
        open == {a \in 1..Len(L) : L[a] = <<"env_vars = [">>}
        ks == {k \in 1..Len(L) :
                 /\ Len(L[k]) = 5 /\ L[k][1] = "  " /\ L[k][5] = ","
                 /\ \E a \in open : a < k /\ \A j \in (a + 1)..k : L[j] # <<"]">>}
    IN  {L[k][3] : k \in ks}

\* the keys assigned in the lines that follow the header of an env sub-table
LiteralNames(t) ==
    LET L == Lines(t)
        hdr == {a \in 1..Len(L) : Len(L[a]) = 3 /\ L[a][1] = "HQ" /\ L[a][3] = "\".env]"}
        ks == {k \in 1..Len(L) :
                 /\ Len(L[k]) >= 2 /\ L[k][2] = " = "
                 /\ \E a \in hdr : a < k /\ \A j \in (a + 1)..k : L[j] # <<>>}
    IN  {L[k][1] : k \in ks}

\* v is a reference to an environment variable: $NAME or ${NAME}
IsReference(v) ==
    \E name \in EnvVarNames : v = <<"$", name>> \/ v = <<"$", "{", name, "}">>

\* the variable that the reference v names
ReferencedName(v) == IF Len(v) = 2 THEN v[2] ELSE v[3]

\* C26: in the generated block every env binding is in exactly one place:
\* a binding whose value is a reference ($NAME or ${NAME}) is listed by its
\* key in env_vars and not in the env sub-table, every other binding is in
\* the env sub-table and not in env_vars.
EnvBindingsInOnePlace ==
    \A n \in DOMAIN gen.servers :
        \A k \in DOMAIN gen.servers[n].env :
            IF IsReference(gen.servers[n].env[k])
            THEN k \in ForwardedNames(gen.text) /\ k \notin LiteralNames(gen.text)
            ELSE k \in LiteralNames(gen.text) /\ k \notin ForwardedNames(gen.text)

\* C27: for a binding whose key K references a variable V other than K,
\* GenerateMCPServerTOML returns the mismatch (K, V) and lists K in
\* env_vars, where no name other than a key is listed; for a binding whose
\* key references the variable of its own name no mismatch is returned.
MismatchesSurfaced ==
    \A n \in DOMAIN gen.servers :
        /\ ForwardedNames(gen.text) \subseteq DOMAIN gen.servers[n].env
        /\ \A k \in DOMAIN gen.servers[n].env :
              IsReference(gen.servers[n].env[k]) =>
                  /\ k \in ForwardedNames(gen.text)
                  /\ <<k, ReferencedName(gen.servers[n].env[k])>> \in gen.mismatches
                        <=> k # ReferencedName(gen.servers[n].env[k])

\* a server was generated with the bindings TOKEN = ${ALT} and HOME = $TOKEN
MismatchesSurfacedWitness ==
    /\ gen.servers # <<>>
    /\ \E n \in DOMAIN gen.servers :
          /\ DOMAIN gen.servers[n].env = {"HOME", "TOKEN"}
          /\ gen.servers[n].env["TOKEN"] = <<"$", "{", "ALT", "}">>
          /\ gen.servers[n].env["HOME"] = <<"$", "TOKEN">>
    /\ gen.mismatches = {<<"TOKEN", "ALT">>, <<"HOME", "TOKEN">>}

-----------------------------------------------------------------------------
(* Properties of the spinner *)

\* Stop has received from the done channel of spinner k, or has returned
Joined(k) == k < Cur \/ spin.main \in {"lock", "print", "unlock", "idle"}

\* no frame of spinner k is written after its final status line
NoFrameAfterFinal(k) ==
    \A a, b \in 1..Len(spin.out) :
        (a < b /\ spin.out[a] = [s |-> k, line |-> "final"])
            => spin.out[b] # [s |-> k, line |-> "frame"]

\* C28: once Stop has passed the receive from done, the goroutine of the
\* spinner has ended, and it writes no frame after the final status line of
\* Stop; and a call of Stop made after Start returns.
StopJoinsGoroutine ==
    /\ [](\A k \in 1..Len(spin.sp) :
            /\ Joined(k) => spin.sp[k].g = "dead"
            /\ NoFrameAfterFinal(k))
    /\ (spin.main = "close" ~> spin.main = "idle")

\* Stop returned for a spinner whose goroutine had written frames
StopJoinsWitness ==
    /\ spin.main = "idle"
    /\ Cur >= 1
    /\ spin.sp[Cur].g = "dead"
    /\ spin.sp[Cur].i >= 1
    /\ spin.out[Len(spin.out)] = [s |-> Cur, line |-> "final"]

-----------------------------------------------------------------------------
(* Properties of runPluginUpdate *)

\* the items in the sequence q
ItemSet(q) == {q[i] : i \in 1..Len(q)}

\* a batch update that got past its preliminaries (the ledger was read and
\* holds plugins, the registry was listed) has returned
BatchDone ==
    /\ upd.pc = "done"
    /\ upd.args = <<>>
    /\ upd.before # <<>>
    /\ upd.err \notin {"ParseError", "RegistryError"}

\* C29: a batch update pulls every marketplace, checks every record and
\* reinstalls every record it selected, whatever failed on the way; it
\* returns no error, and its count is the number of reinstalls that
\* succeeded.
BatchGoesOn ==
    BatchDone =>
        /\ upd.err = ""
        /\ upd.pulled = Markets
        /\ Len(upd.checked) = Cardinality(ItemSet(upd.checked))
        /\ ItemSet(upd.checked) = UNION {ItemSet(ItemsOf(upd.before, <<id>>)) :
                                            id \in DOMAIN upd.before}
        /\ Len(upd.attempted) = Len(upd.toUpdate)
        /\ \A k \in 1..Len(upd.attempted) :
              /\ upd.attempted[k].id = upd.toUpdate[k].id
              /\ upd.attempted[k].entry = upd.toUpdate[k].entry
        /\ upd.updatedCount
             = Cardinality({k \in 1..Len(upd.attempted) : upd.attempted[k].err = ""})

\* a batch in which a pull failed, a check failed and a reinstall failed,
\* and one record was reinstalled
BatchGoesOnWitness ==
    /\ BatchDone
    /\ upd.pullErrs # {}
    /\ upd.warnings # <<>>
    /\ \E k \in 1..Len(upd.attempted) : upd.attempted[k].err # ""
    /\ upd.updatedCount = 1

\* an update that ran to its end without an error
UpdateDone ==
    /\ upd.pc = "done"
    /\ upd.err = ""
    /\ upd.pulled # {}

\* the version the update resolved for the record it
ResolvedFor(it) == ResolveVersion(upd.clones[it.id[2]])

\* the record it is in the ledger
StillRecorded(it) ==
    it.entry \in ItemSet(EntriesOf(Load(ledger).doc.plugins, it.id))

\* runPluginUpdate reinstalled the record it
WasReinstalled(it) ==
    \E k \in 1..Len(upd.attempted) :
        upd.attempted[k].id = it.id /\ upd.attempted[k].entry = it.entry

\* without the force flag the records reinstalled are those whose version
\* differs from the resolved one, with it all records are
SelectedByVersion ==
    UpdateDone =>
        \A it \in ItemSet(upd.checked) \ ItemSet(upd.warnings) :
            WasReinstalled(it) <=> (upd.force \/ it.entry.version # ResolvedFor(it))

\* C30: an update without the force flag reinstalls a record exactly when
\* its recorded version differs from the version resolved from the
\* marketplace and leaves the records with an equal version as they are; an
\* update with the force flag reinstalls every selected record.
UpdateByVersion ==
    /\ SelectedByVersion
    /\ UpdateDone =>
          \A it \in ItemSet(upd.checked) \ ItemSet(upd.warnings) :
              (~upd.force /\ it.entry.version = ResolvedFor(it)) => StillRecorded(it)

-----------------------------------------------------------------------------
(* Properties of the order of the generated block *)

\* the server names of the section headers of the text t, in their order
HeaderNames(t) ==
    LET L == Lines(t)
    IN  [k \in 1..Len(SelectSeq(L, LAMBDA l : Len(l) = 3 /\ l[1] = "HQ" /\ l[3] = "QH")) |->
            SelectSeq(L, LAMBDA l : Len(l) = 3 /\ l[1] = "HQ" /\ l[3] = "QH")[k][2]]

\* the entries of the env_vars arrays and the keys of the env sub-tables of
\* the text t, in their order, each array and each sub-table closed by ""
ListedNames(t) ==
    LET L == Lines(t)
        pick == SelectSeq(L, LAMBDA l :
                    \/ l = <<"]">>
                    \/ l = <<>>
                    \/ Len(l) = 5 /\ l[1] = "  " /\ l[5] = "," /\ l[3] \in EnvKeys
                    \/ Len(l) >= 2 /\ l[2] = " = " /\ l[1] \in EnvKeys)
    IN  [k \in 1..Len(pick) |->
            IF Len(pick[k]) >= 2 /\ pick[k][2] = " = " THEN pick[k][1]
            ELSE IF Len(pick[k]) = 5 THEN pick[k][3]
            ELSE ""]

\* the strings of q ascend, within each run between two ""
Ascending(q) ==
    \A i \in 1..(Len(q) - 1) :
        (q[i] # "" /\ q[i + 1] # "") => Rank(q[i]) < Rank(q[i + 1])

\* C31: the section headers of the generated block are in ascending order
\* of server name, the entries of every env_vars array and the keys of
\* every env sub-table are in ascending order, and the block is the same
\* in whatever orders the maps were ranged over.
GeneratedInOrder ==
    gen.servers # <<>> =>
        /\ HeaderNames(gen.text) = SortStrings(DOMAIN gen.servers)
        /\ Ascending(ListedNames(gen.text))
        /\ gen.text = GenerateMCPServerTOML(PFmt, "acme", gen.servers)

\* two servers with two references each were generated while every map was
\* ranged over in descending order
GeneratedInOrderWitness ==
    /\ gen.order = [names |-> <<"beta", "alpha">>, env |-> <<"TOKEN", "HOME">>,
                    keys |-> <<"TOKEN", "HOME">>]
    /\ ForwardedNames(gen.text) = {"HOME", "TOKEN"}
    /\ HeaderNames(gen.text) = <<"alpha", "beta">>

-----------------------------------------------------------------------------
(* Properties of the ledger against the config file *)

\* the text t holds a managed block written for plugin id (name and
\* marketplace) that declares the server name
DeclaredInBlockOf(t, name, id) ==
    LET L == Lines(t)
    IN  \E a \in 1..Len(L) : \E b \in a..Len(L) :
            /\ IsBlock(L, a, b)
            /\ IsStartLineOf(L[a], id)
            /\ \E k \in a..b : IsHeaderOf(L[k], name)

\* every server that a ledger record lists is declared in a managed block
\* of the record's plugin
RecordsBacked ==
    \A id \in DOMAIN ledger.plugins :
        \A i \in 1..Len(ledger.plugins[id]) :
            \A j \in 1..Len(ledger.plugins[id][i].mcpServers) :
                DeclaredInBlockOf(ReadConfig(cfg),
                                  ledger.plugins[id][i].mcpServers[j].name, id)

\* C32: a successful install or uninstall (scope global or project, no
\* step of which failed) keeps the ledger backed by the config file: when
\* every listed server was declared in a block of its record's plugin
\* before the command, the same holds after it.
BlocksBackRecords ==
    [][(/\ RecordsBacked
        /\ nOps' = nOps + 1
        /\ cmd'.name \in {"install", "uninstall"}
        /\ cmd'.scope \in {"global", "project"}
        /\ cmd'.err = "" /\ cmd'.warned = "")
          => RecordsBacked']_vars

-----------------------------------------------------------------------------
(* Properties of the ledger across runPluginUpdate *)

\* the ledger holds a record with the key (id, scope, projectPath) of e
KeyRecorded(id, e) ==
    \E i \in 1..Len(EntriesOf(Load(ledger).doc.plugins, id)) :
        /\ EntriesOf(Load(ledger).doc.plugins, id)[i].scope = e.scope
        /\ EntriesOf(Load(ledger).doc.plugins, id)[i].projectPath = e.projectPath

\* C33: when runPluginUpdate has returned, with or without an error, the
\* ledger holds a record for the key (pluginID, scope, projectPath) of
\* every record that it held when the command began.
UpdateKeepsRecords ==
    upd.pc = "done" =>
        \A id \in DOMAIN upd.before :
            \A i \in 1..Len(upd.before[id]) : KeyRecorded(id, upd.before[id][i])

-----------------------------------------------------------------------------
(* Properties of the paths of the remaining records *)

\* the skill directories, command files and cache copies that the records
\* of the ledger file f refer to
ReferencedPaths(f) ==
    UNION {RemovedPaths(Load(f).doc.plugins[id]) : id \in DOMAIN Load(f).doc.plugins}

\* C34: an uninstall with scope global or project removes no path that a
\* record remaining in the ledger refers to: the skill directories, the
\* command files and the cache copy of every remaining record that existed
\* before the uninstall exist after it.
UninstallSparesOthers ==
    [][(/\ cmd'.name = "uninstall"
        /\ nOps' = nOps + 1
        /\ cmd'.scope \in {"global", "project"}
        /\ cmd'.err = "")
          => \A p \in ReferencedPaths(ledger') : p \in fs => p \in fs']_vars

-----------------------------------------------------------------------------
(* Properties of the order of the steps of runPluginInstall *)

\* the place of a step in the text of runPluginInstall
StepRank(step) ==
    CASE step = "idle" -> 0
      [] step = "source" -> 1
      [] step = "check" -> 2
      [] step = "skills" -> 3
      [] step = "commands" -> 4
      [] step = "mcp" -> 5
      [] step = "cache" -> 6
      [] step = "record" -> 7
      [] step = "done" -> 8

\* the paths of one kind that a step creates
Created(kind) == {p \in fs' \ fs : p.kind = kind}

\* C36: in runPluginInstall the ledger is written by the last step only,
\* after every skill and every command of the source has been copied, the
\* MCP step has run and the cache copy exists; the steps run in the order
\* AlreadyInstalled check, skills, commands, MCP, cache, record, so that no
\* copy precedes the check and nothing follows the record but the return.
UpsertIsLast ==
    [][/\ ledger' # ledger
           => /\ ins.pc = "record"
              /\ ins'.pc = "done"
              /\ cfg' = cfg
              /\ Created("skill") \cup Created("prompt") \cup Created("cache") = {}
              /\ Len(ins.skills) = Len(Manifest(ins.id).skills)
              /\ Len(ins.commands) = Len(Manifest(ins.id).commands)
              /\ \A j \in 1..Len(ins.skills) : ins.skills[j].path \in fs
              /\ \A j \in 1..Len(ins.commands) : ins.commands[j].path \in fs
              /\ InsCachePath \in fs
       /\ Created("skill") # {} => ins.pc = "skills"
       /\ Created("prompt") # {} => ins.pc = "commands"
       /\ cfg' # cfg => ins.pc = "mcp"
       /\ Created("cache") # {} => ins.pc = "cache"
       /\ ins.pc \notin {"idle", "done"} => StepRank(ins.pc) <= StepRank(ins'.pc)
       /\ ins'.pc = "record" => ins.pc = "cache"
       /\ ins'.pc = "cache" => ins.pc = "mcp"]_vars

\* an install that copied two skills and a command, wrote its servers and
\* its cache copy and then recorded itself has returned
UpsertIsLastWitness ==
    /\ ins.pc = "done"
    /\ ins.err = ""
    /\ Len(ins.skills) = 2
    /\ Len(ins.commands) = 1
    /\ Len(ins.servers) > 0
    /\ InsCachePath \in fs
    /\ Len(GetByScope(ledger, ins.id, ins.scope,
                      IF ins.scope = "project" THEN cwd ELSE "").entries) > 0

-----------------------------------------------------------------------------
(* Properties of ApplyUpdates *)

\* C37: when ApplyUpdates has returned, every record of a plugin that the
\* check result lists with HasUpdate, and whose marketplace was pulled,
\* carries the version that the clone of its marketplace now offers.
AppliedUpdatesInstalled ==
    (auto.pc = "done" /\ auto.hasAny)
        => \A i \in 1..Len(auto.plugins) :
              LET p == auto.plugins[i]
                  entries == EntriesOf(Load(ledger).doc.plugins, p.name)
              IN  (p.hasUpdate /\ p.name[2] \in auto.pulled
                       /\ auto.clones[p.name[2]].listed)
                     => \A j \in 1..Len(entries) :
                           entries[j].version = ResolveVersion(auto.clones[p.name[2]])

-----------------------------------------------------------------------------
(* Properties of package config *)

\* C35: every call of Load, Save, Get and Reload returns: a goroutine that
\* is inside a call of package config is outside of it again later.
ConfigCallsReturn ==
    \A t \in Threads : (conf.pc[t] # "idle") ~> (conf.pc[t] = "idle")

====
